---- MODULE Spec2Model ----
(***************************************************************************)
(* A model of the mina animation core: the time scale (delay / repeat /    *)
(* reverse arithmetic), per-property sub-timelines built from sparse       *)
(* keyframes, generated timelines, merged timelines and the state-driven   *)
(* animator that blends between them.                                      *)
(*                                                                         *)
(* Numbers.  The code computes in f32.  The model computes exactly:        *)
(* elapsed times, delays and cycle durations are whole seconds, normalized *)
(* times and easing ratios are rationals [n, d] with d > 0, and animated   *)
(* values are u8 (the Style struct of tests/state_animator_test.rs), which *)
(* Lerp converts back from the float result by truncation with a range     *)
(* check.  f32 rounding error is outside the model.                        *)
(***************************************************************************)
EXTENDS Integers, Sequences, FiniteSets, TLC

(***************************************************************************)
(* Bounds of the model                                                     *)
(***************************************************************************)
\* advance() is no longer offered once this many seconds have been advanced in all
MaxElapsed == 6
\* largest elapsed_seconds argument offered to advance()
MaxStep == 2
\* number of state changes set_state() is offered
MaxTransitions == 2

(***************************************************************************)
(* Exact rationals                                                         *)
(***************************************************************************)
Rat(n, d) == [n |-> n, d |-> d]
RZero == Rat(0, 1)
ROne == Rat(1, 1)
RLt(a, b) == a.n * b.d < b.n * a.d
RLe(a, b) == a.n * b.d <= b.n * a.d
REq(a, b) == a.n * b.d = b.n * a.d
RSub(a, b) == Rat(a.n * b.d - b.n * a.d, a.d * b.d)
RMul(a, b) == Rat(a.n * b.n, a.d * b.d)
\* a / b for b > 0
RDiv(a, b) == Rat(a.n * b.d, a.d * b.n)
\* f32::clamp(0.0, 1.0)
RClamp01(a) == IF RLt(a, RZero) THEN RZero ELSE IF RLt(ROne, a) THEN ROne ELSE a

(***************************************************************************)
(* Repeat (timeline.rs)                                                    *)
(***************************************************************************)
RepeatNone == [kind |-> "None", times |-> 0]
RepeatTimes(k) == [kind |-> "Times", times |-> k]
RepeatInfinite == [kind |-> "Infinite", times |-> 0]

\* u32::MAX, the ordinal of Repeat::Infinite.  TLC integers are 32-bit signed,
\* so the model uses the largest value it can hold; only the order matters.
U32Max == 2147483647

as_ordinal(r) ==
    IF r.kind = "None" THEN 0
    ELSE IF r.kind = "Times" THEN r.times
    ELSE U32Max

\* Ord for Repeat: the comparison of the ordinals
RepeatCmp(a, b) ==
    IF as_ordinal(a) < as_ordinal(b) THEN "Less"
    ELSE IF as_ordinal(a) > as_ordinal(b) THEN "Greater"
    ELSE "Equal"

\* `k + 1` on a u32 (the model's u32 ends at U32Max): without overflow checks
\* the sum wraps to 0, with them it panics
WrappingInc(k) == IF k = U32Max THEN 0 ELSE k + 1
IncOverflows(k) == k = U32Max

(***************************************************************************)
(* TimeScale (time_scale.rs)                                               *)
(***************************************************************************)
TimeScale(duration, delay, repeat, reverse) ==
    [duration |-> duration, delay |-> delay, repeat |-> repeat, reverse |-> reverse]

\* a total duration: a finite number of seconds, or f32::INFINITY
Finite(secs) == [finite |-> TRUE, secs |-> secs]
Infinity == [finite |-> FALSE, secs |-> 0]

get_duration(ts) ==
    IF ts.repeat = RepeatInfinite THEN Infinity
    ELSE Finite(ts.delay + ts.duration * WrappingInc(as_ordinal(ts.repeat)))

\* get_duration panics in a build with overflow checks
get_duration_panics(ts) ==
    ts.repeat # RepeatInfinite /\ IncOverflows(as_ordinal(ts.repeat))

NotStarted == [kind |-> "NotStarted", t |-> RZero, is_repeating |-> FALSE, is_reversing |-> FALSE]
Active(t, rep, rev) == [kind |-> "Active", t |-> t, is_repeating |-> rep, is_reversing |-> rev]
Ended(t) == [kind |-> "Ended", t |-> t, is_repeating |-> FALSE, is_reversing |-> FALSE]

position_ended(ts) == Ended(IF ts.reverse THEN RZero ELSE ROne)

\* a normalization that ignores `reverse`
ActiveAtForwardOnly(ts, cycle_time, is_repeating) ==
    Active(Rat(cycle_time, ts.duration), is_repeating, FALSE)

\* the normalized time and direction for a time inside a cycle
ActiveAt(ts, cycle_time, is_repeating) ==
    IF ts.reverse /\ 2 * cycle_time > ts.duration
    THEN Active(Rat(2 * (ts.duration - cycle_time), ts.duration), is_repeating, TRUE)
    ELSE IF ts.reverse
    THEN Active(Rat(2 * cycle_time, ts.duration), is_repeating, FALSE)
    ELSE Active(Rat(cycle_time, ts.duration), is_repeating, FALSE)

\* 0.0 / 0.0 and x % 0.0
NaN == Rat(0, 0)

\* get_position once the delay has passed, for a cycle duration <= 0: the
\* f32 division and remainder by the duration give NaN for a duration of 0
\* and a ratio <= 0 for a negative one
DegeneratePosition(ts, time) ==
    IF ts.repeat.kind = "None"
    THEN IF time > ts.duration THEN position_ended(ts) ELSE Active(NaN, FALSE, FALSE)
    ELSE IF ts.repeat.kind = "Times" /\ time > ts.duration * WrappingInc(ts.repeat.times)
    THEN position_ended(ts)
    ELSE IF ts.duration = 0 THEN Active(NaN, time > 0, FALSE)
    ELSE Active(Rat((IF ts.reverse THEN 2 ELSE 1) * (0 - (time % (0 - ts.duration))),
                    0 - ts.duration),
                FALSE, FALSE)

get_position(ts, real_time) ==
    LET time == real_time - ts.delay
        rem == time % ts.duration
    IN  IF time < 0 THEN NotStarted
        ELSE IF ts.duration <= 0 THEN DegeneratePosition(ts, time)
        ELSE IF ts.repeat.kind = "None"
        THEN IF time > ts.duration THEN position_ended(ts)
             ELSE ActiveAt(ts, time, FALSE)
        ELSE IF ts.repeat.kind = "Times" /\ time > ts.duration * WrappingInc(ts.repeat.times)
        THEN position_ended(ts)
        ELSE IF rem = 0 /\ time >= ts.duration
        THEN ActiveAt(ts, ts.duration, time > ts.duration)
        ELSE ActiveAt(ts, rem, time >= ts.duration)

\* get_position panics in a build with overflow checks: the guard of the
\* Repeat::Times arm is evaluated once the delay has passed
get_position_panics(ts, real_time) ==
    real_time - ts.delay >= 0 /\ ts.repeat.kind = "Times" /\ IncOverflows(ts.repeat.times)

(***************************************************************************)
(* prepare_frame (timeline.rs)                                             *)
(***************************************************************************)
\* number of boundary times strictly below t
RECURSIVE CountBelow(_, _)
CountBelow(boundary_times, t) ==
    IF boundary_times = <<>> THEN 0
    ELSE (IF RLt(Head(boundary_times), t) THEN 1 ELSE 0) + CountBelow(Tail(boundary_times), t)

Max(a, b) == IF a > b THEN a ELSE b

\* slice::binary_search_by on ascending, pairwise distinct boundary times:
\* Ok(index) of the equal element, else Err(insertion point).max(1) - 1.
\* Indices are 0-based as in the code.
FrameIndex(boundary_times, t) ==
    IF \E i \in 1..Len(boundary_times) : REq(boundary_times[i], t)
    THEN (CHOOSE i \in 1..Len(boundary_times) : REq(boundary_times[i], t)) - 1
    ELSE Max(CountBelow(boundary_times, t), 1) - 1

\* a prepare_frame that enables the start override at every position
prepare_frame_always_override(time, boundary_times, timescale) ==
    LET pos == get_position(timescale, time)
        normalized_time == IF pos.kind = "NotStarted" THEN RZero ELSE pos.t
    IN  IF boundary_times = <<>>
        THEN [some |-> FALSE, normalized_time |-> RZero, frame_index |-> 0,
              enable_start_override |-> FALSE]
        ELSE [some |-> TRUE, normalized_time |-> normalized_time,
              frame_index |-> FrameIndex(boundary_times, normalized_time),
              enable_start_override |-> TRUE]

NoFrame == [some |-> FALSE, normalized_time |-> RZero, frame_index |-> 0, enable_start_override |-> FALSE]

prepare_frame(time, boundary_times, timescale) ==
    LET pos == get_position(timescale, time)
        normalized_time == IF pos.kind = "NotStarted" THEN RZero ELSE pos.t
        enable == IF pos.kind = "Active" THEN ~pos.is_repeating /\ ~pos.is_reversing
                  ELSE pos.kind = "NotStarted"
    IN  IF boundary_times = <<>> THEN NoFrame
        ELSE [some |-> TRUE, normalized_time |-> normalized_time,
              frame_index |-> FrameIndex(boundary_times, normalized_time),
              enable_start_override |-> enable]

(***************************************************************************)
(* Easing (easing.rs) and Lerp (interpolation.rs)                          *)
(***************************************************************************)
\* Easing::Linear, and an Easing::Custom function x -> x * x
Easings == {"Linear", "Square"}

\* an Easing::Custom function that exceeds 1 on the way, x -> 3x - 2x^2
\* (1 at x = 1/2 and at x = 1, 9/8 at x = 3/4), as Easing::OutBack does
Overshoot == "Overshoot"

calc(easing, x) ==
    IF easing = "Linear" THEN x
    ELSE IF easing = "Square" THEN RMul(x, x)
    ELSE Rat(3 * x.n * x.d - 2 * x.n * x.n, x.d * x.d)

\* f32 -> integer conversion of num_traits: truncation toward zero
Trunc(r) == IF r.n >= 0 THEN r.n \div r.d ELSE 0 - ((0 - r.n) \div r.d)

\* u8::MAX
U8Max == 255

\* a lerp that clamps the result into the range of u8
lerp_clamping(a, b, x) ==
    LET r == Rat(a * (x.d - x.n) + b * x.n, x.d)
    IN  [panic |-> FALSE,
         v |-> IF RLt(r, RZero) THEN 0 ELSE IF RLt(Rat(U8Max, 1), r) THEN U8Max ELSE Trunc(r)]

\* Lerp for u8: a * (1 - x) + b * x in floating point, converted back with a
\* range check that panics ("Converted value was outside the valid range").
lerp(a, b, x) ==
    LET r == Rat(a * (x.d - x.n) + b * x.n, x.d)
    IN  [panic |-> ~(RLt(Rat(-1, 1), r) /\ RLt(r, Rat(U8Max + 1, 1))), v |-> Trunc(r)]

(***************************************************************************)
(* Keyframes and SubTimeline (timeline.rs, timeline_helpers.rs)            *)
(***************************************************************************)
\* the animated properties: the fields of Style, in declaration order
PropSeq == <<"x", "y">>
Props == {"x", "y"}

None == [some |-> FALSE, v |-> 0]
Some(v) == [some |-> TRUE, v |-> v]
NoEasing == [some |-> FALSE, v |-> "Linear"]
SomeEasing(e) == [some |-> TRUE, v |-> e]

Keyframe(normalized_time, data, easing) ==
    [normalized_time |-> normalized_time, data |-> data, easing |-> easing]

SplitKeyframe(normalized_time, value, easing) ==
    [normalized_time |-> normalized_time, value |-> value, easing |-> easing]

\* a copy at another time that does not keep the value
with_time_losing_value(frame, normalized_time) ==
    [normalized_time |-> normalized_time, value |-> 0, easing |-> frame.easing]

with_time(frame, normalized_time) == SplitKeyframe(normalized_time, frame.value, frame.easing)

\* usize::MAX, the result of 0usize - 1 when overflow checks are off.  Any
\* value beyond every frame count behaves the same: frames.get(..) is None.
UsizeMax == 2147483647

\* a loop body that never synthesizes the frame at 0%
FromKeyframesStepWithoutStart(acc, keyframe, default_value, p, overflow_checks) ==
    LET data == keyframe.data[p]
        easing1 == IF data.some /\ keyframe.easing.some THEN keyframe.easing.v ELSE acc.easing
        frames2 == IF data.some
                   THEN Append(acc.frames,
                               SplitKeyframe(keyframe.normalized_time, data.v, easing1))
                   ELSE acc.frames
        underflow == Len(frames2) = 0
    IN  [frames |-> frames2,
         frame_index_map |-> Append(acc.frame_index_map,
                                    IF underflow THEN UsizeMax ELSE Len(frames2) - 1),
         easing |-> easing1,
         panic |-> acc.panic \/ (underflow /\ overflow_checks)]

\* one iteration of the loop of from_keyframes for property p
FromKeyframesStep(acc, keyframe, default_value, p, overflow_checks) ==
    LET frames1 == IF acc.frames = <<>> /\ RLt(RZero, keyframe.normalized_time)
                   THEN <<SplitKeyframe(RZero, default_value, acc.easing)>>
                   ELSE acc.frames
        data == keyframe.data[p]
        easing1 == IF data.some /\ keyframe.easing.some THEN keyframe.easing.v ELSE acc.easing
        frames2 == IF data.some
                   THEN Append(frames1, SplitKeyframe(keyframe.normalized_time, data.v, easing1))
                   ELSE frames1
        underflow == Len(frames2) = 0
    IN  [frames |-> frames2,
         frame_index_map |-> Append(acc.frame_index_map,
                                    IF underflow THEN UsizeMax ELSE Len(frames2) - 1),
         easing |-> easing1,
         panic |-> acc.panic \/ (underflow /\ overflow_checks)]

RECURSIVE FromKeyframesLoop(_, _, _, _, _)
FromKeyframesLoop(acc, keyframes, default_value, p, overflow_checks) ==
    IF keyframes = <<>> THEN acc
    ELSE FromKeyframesLoop(
            FromKeyframesStep(acc, Head(keyframes), default_value, p, overflow_checks),
            Tail(keyframes), default_value, p, overflow_checks)

\* SubTimeline::from_keyframes.  start_override is the value set by
\* override_start_value, None until then.  panic: the subtraction at
\* frame_index_map.push(converted_frames.len() - 1) overflowed in a build
\* with overflow checks.
from_keyframes(keyframes, default_value, p, default_easing, overflow_checks) ==
    LET acc == FromKeyframesLoop(
                   [frames |-> <<>>, frame_index_map |-> <<>>,
                    easing |-> default_easing, panic |-> FALSE],
                   keyframes, default_value, p, overflow_checks)
        last == acc.frames[Len(acc.frames)]
        frames == IF acc.frames # <<>> /\ RLt(last.normalized_time, ROne)
                  THEN Append(acc.frames, with_time(last, ROne))
                  ELSE acc.frames
    IN  [frames |-> frames, frame_index_map |-> acc.frame_index_map,
         start_override |-> None, panic |-> acc.panic]

\* SubTimeline::override_start_value: the value the frame at 0% takes while
\* the start override is enabled
override_start_value(sub, value) == [sub EXCEPT !.start_override = Some(value)]

\* frame number index (0-based) of the track as value_at reads it: the frame
\* at 0% carries the overriding start value when the override is enabled
FrameOf(sub, index, enable_start_override) ==
    LET frame == sub.frames[index + 1]
    IN  IF index = 0 /\ enable_start_override /\ sub.start_override.some
        THEN [frame EXCEPT !.value = sub.start_override.v]
        ELSE frame

NoFrames == [some |-> FALSE, start |-> 0, end |-> 0]
Bounding(start, end) == [some |-> TRUE, start |-> start, end |-> end]

\* SubTimeline::get_bounding_frames, as 0-based frame numbers
get_bounding_frames(sub, normalized_time, index_hint) ==
    IF index_hint >= Len(sub.frame_index_map) THEN NoFrames
    ELSE LET index_at == sub.frame_index_map[index_hint + 1]
         IN  IF index_at >= Len(sub.frames) THEN NoFrames
             ELSE IF RLt(normalized_time, sub.frames[index_at + 1].normalized_time)
             THEN IF index_at > 0 THEN Bounding(index_at - 1, index_at) ELSE NoFrames
             ELSE IF index_at = Len(sub.frames) - 1 THEN Bounding(index_at, index_at)
             ELSE Bounding(index_at, index_at + 1)

\* an interpolation that eases with the end frame's easing
interpolate_value_end_easing(start_frame, end_frame, time) ==
    LET duration == RSub(end_frame.normalized_time, start_frame.normalized_time)
        x == RDiv(RSub(time, start_frame.normalized_time), duration)
    IN  IF REq(duration, RZero) THEN [panic |-> FALSE, v |-> start_frame.value]
        ELSE lerp(start_frame.value, end_frame.value, calc(end_frame.easing, x))

\* interpolate_value
interpolate_value(start_frame, end_frame, time) ==
    LET duration == RSub(end_frame.normalized_time, start_frame.normalized_time)
        x == RDiv(RSub(time, start_frame.normalized_time), duration)
    IN  IF REq(duration, RZero) THEN [panic |-> FALSE, v |-> start_frame.value]
        ELSE lerp(start_frame.value, end_frame.value, calc(start_frame.easing, x))

NoWrite == [some |-> FALSE, v |-> 0, panic |-> FALSE]

\* SubTimeline::value_at: None, Some(v), or a panic inside lerp
value_at(sub, normalized_time, index_hint, enable_start_override) ==
    LET t == RClamp01(normalized_time)
        b == get_bounding_frames(sub, t, index_hint)
        r == interpolate_value(FrameOf(sub, b.start, enable_start_override),
                               FrameOf(sub, b.end, enable_start_override), t)
    IN  IF ~b.some THEN NoWrite
        ELSE [some |-> ~r.panic, v |-> r.v, panic |-> r.panic]

(***************************************************************************)
(* TimelineConfiguration, the generated Timeline, MergedTimeline           *)
(***************************************************************************)
\* the keyframes' times in declaration order
RECURSIVE get_boundary_times(_)
get_boundary_times(keyframes) ==
    IF keyframes = <<>> THEN <<>>
    ELSE <<Head(keyframes).normalized_time>> \o get_boundary_times(Tail(keyframes))

\* insertion of k after every keyframe that is not later than it (stable)
RECURSIVE InsertSorted(_, _)
InsertSorted(sorted, k) ==
    IF sorted = <<>> THEN <<k>>
    ELSE IF RLt(k.normalized_time, Head(sorted).normalized_time) THEN <<k>> \o sorted
    ELSE <<Head(sorted)>> \o InsertSorted(Tail(sorted), k)

\* keyframes.sort_by(normalized_time.total_cmp): a stable ascending sort
RECURSIVE SortKeyframes(_)
SortKeyframes(keyframes) ==
    IF keyframes = <<>> THEN <<>>
    ELSE InsertSorted(SortKeyframes(SubSeq(keyframes, 1, Len(keyframes) - 1)),
                      keyframes[Len(keyframes)])

TimelineConfiguration(keyframes, duration_seconds, delay_seconds, repeat, reverse) ==
    [default_easing |-> "Linear", delay_seconds |-> delay_seconds,
     duration_seconds |-> duration_seconds, keyframes |-> keyframes,
     repeat |-> repeat, reverse |-> reverse]

\* TimelineBuilderArguments::from
BuilderArguments(config) ==
    [timescale |-> TimeScale(config.duration_seconds, config.delay_seconds,
                             config.repeat, config.reverse),
     boundary_times |-> get_boundary_times(config.keyframes),
     default_easing |-> config.default_easing,
     keyframes |-> SortKeyframes(config.keyframes)]

\* Default::default() of an animated field (u8)
DefaultValue == 0

\* TimelineBuilder::build as generated by derive(Animate); the timeline
\* remembers the build it was compiled in
BuildTimeline(config, overflow_checks) ==
    LET args == BuilderArguments(config)
    IN  [overflow_checks |-> overflow_checks,
         timescale |-> args.timescale,
         boundary_times |-> args.boundary_times,
         t |-> [p \in Props |->
                  from_keyframes(args.keyframes, DefaultValue, p, args.default_easing,
                                 overflow_checks)]]

BuildPanics(timeline) == \E p \in Props : timeline.t[p].panic

\* the generated Timeline::start_with
TimelineStartWith(timeline, values) ==
    [timeline EXCEPT !.t = [p \in Props |-> override_start_value(timeline.t[p], values[p])]]

\* the generated Timeline::update, field by field in declaration order; a
\* panic in a field's lerp leaves the earlier fields written
RECURSIVE UpdateFields(_, _, _, _)
UpdateFields(timeline, frame, target, i) ==
    IF i > Len(PropSeq) THEN [values |-> target, panic |-> FALSE]
    ELSE LET p == PropSeq[i]
             r == value_at(timeline.t[p], frame.normalized_time, frame.frame_index,
                           frame.enable_start_override)
         IN  IF r.panic THEN [values |-> target, panic |-> TRUE]
             ELSE UpdateFields(timeline, frame,
                               IF r.some THEN [target EXCEPT ![p] = r.v] ELSE target, i + 1)

\* an update that first rebases the timeline on the target it is given
TimelineUpdateFromTarget(timeline, target, time) ==
    LET frame == prepare_frame(time, timeline.boundary_times, timeline.timescale)
    IN  IF ~frame.some THEN [values |-> target, panic |-> FALSE]
        ELSE IF timeline.overflow_checks /\ get_position_panics(timeline.timescale, time)
        THEN [values |-> target, panic |-> TRUE]
        ELSE UpdateFields(TimelineStartWith(timeline, target), frame, target, 1)

\* the generated Timeline::update: nothing without keyframes; the position
\* lookup of prepare_frame panics where get_position does
TimelineUpdate(timeline, target, time) ==
    LET frame == prepare_frame(time, timeline.boundary_times, timeline.timescale)
    IN  IF ~frame.some THEN [values |-> target, panic |-> FALSE]
        ELSE IF timeline.overflow_checks /\ get_position_panics(timeline.timescale, time)
        THEN [values |-> target, panic |-> TRUE]
        ELSE UpdateFields(timeline, frame, target, 1)

\* MergedTimeline::start_with
RECURSIVE MergedStartWith(_, _)
MergedStartWith(timelines, values) ==
    IF timelines = <<>> THEN <<>>
    ELSE <<TimelineStartWith(Head(timelines), values)>> \o MergedStartWith(Tail(timelines), values)

\* a MergedTimeline::update that applies the components last to first
RECURSIVE MergedUpdateReversed(_, _, _)
MergedUpdateReversed(timelines, target, time) ==
    IF timelines = <<>> THEN [values |-> target, panic |-> FALSE]
    ELSE LET r == TimelineUpdate(timelines[Len(timelines)], target, time)
         IN  IF r.panic THEN r
             ELSE MergedUpdateReversed(SubSeq(timelines, 1, Len(timelines) - 1), r.values, time)

\* MergedTimeline::update: the components in list order
RECURSIVE MergedUpdate(_, _, _)
MergedUpdate(timelines, target, time) ==
    IF timelines = <<>> THEN [values |-> target, panic |-> FALSE]
    ELSE LET r == TimelineUpdate(Head(timelines), target, time)
         IN  IF r.panic THEN r ELSE MergedUpdate(Tail(timelines), r.values, time)

\* a MergedTimeline::duration that reports the duration of its first component
MergedDurationOfFirst(timelines) ==
    IF timelines = <<>> THEN Finite(0) ELSE get_duration(Head(timelines).timescale)

\* MergedTimeline::duration: the maximum over the components, 0 when empty
RECURSIVE MergedDuration(_)
MergedDuration(timelines) ==
    IF timelines = <<>> THEN Finite(0)
    ELSE LET d == get_duration(Head(timelines).timescale)
             rest == MergedDuration(Tail(timelines))
         IN  IF ~d.finite \/ ~rest.finite THEN Infinity
             ELSE Finite(Max(d.secs, rest.secs))

\* Iterator::min_by over the delays: the minimum, 0 when empty
RECURSIVE MergedDelay(_)
MergedDelay(timelines) ==
    IF timelines = <<>> THEN 0
    ELSE IF Len(timelines) = 1 THEN Head(timelines).timescale.delay
    ELSE LET d == Head(timelines).timescale.delay
             rest == MergedDelay(Tail(timelines))
         IN  IF d > rest THEN rest ELSE d

\* Iterator::max over the repeats from `i` on, `best` being the maximum so
\* far: an element replaces it unless it compares as smaller
RECURSIVE MaxRepeatFrom(_, _, _)
MaxRepeatFrom(timelines, i, best) ==
    IF i > Len(timelines) THEN best
    ELSE MaxRepeatFrom(timelines, i + 1,
                       IF RepeatCmp(best, timelines[i].timescale.repeat) = "Greater"
                       THEN best ELSE timelines[i].timescale.repeat)

\* MergedTimeline::repeat
MergedRepeat(timelines) ==
    IF timelines = <<>> THEN RepeatNone
    ELSE MaxRepeatFrom(timelines, 2, timelines[1].timescale.repeat)

(***************************************************************************)
(* The configurations the animator is built from                           *)
(***************************************************************************)
Data(x, y) == [x |-> x, y |-> y]
RHalf == Rat(1, 2)

\* keyframe lists, in declaration order
\* 0% and 100%, every property
KFull == <<Keyframe(RZero, Data(Some(100), Some(50)), NoEasing),
           Keyframe(ROne, Data(Some(20), Some(80)), NoEasing)>>
\* 0% and 100%, y in no keyframe
KOnlyX == <<Keyframe(RZero, Data(Some(40), None), NoEasing),
            Keyframe(ROne, Data(Some(100), None), NoEasing)>>
\* a lone 100% keyframe
KLast == <<Keyframe(ROne, Data(Some(80), Some(20)), NoEasing)>>
\* a lone 100% keyframe, y in no keyframe
KLastX == <<Keyframe(ROne, Data(Some(80), None), NoEasing)>>
\* a middle keyframe that leaves y out
KSparse == <<Keyframe(RZero, Data(Some(100), Some(50)), NoEasing),
             Keyframe(RHalf, Data(Some(30), None), NoEasing),
             Keyframe(ROne, Data(Some(20), Some(80)), NoEasing)>>
\* neither a 0% nor a 100% keyframe, x in no keyframe
KMid == <<Keyframe(RHalf, Data(None, Some(40)), NoEasing)>>
\* a 0% keyframe that leaves out a property a later keyframe defines
KLateY == <<Keyframe(RZero, Data(Some(60), None), NoEasing),
            Keyframe(RHalf, Data(Some(10), Some(40)), NoEasing)>>
\* no keyframes
KEmpty == <<>>

KeyframeLists == {KFull, KOnlyX, KLast, KLastX, KSparse, KMid, KLateY, KEmpty}

\* (cycle duration, delay, repeat, reverse)
Once == TimeScale(4, 0, RepeatNone, FALSE)
DelayedTwice == TimeScale(2, 1, RepeatTimes(1), FALSE)
OnceReversing == TimeScale(4, 0, RepeatNone, TRUE)
Forever == TimeScale(2, 0, RepeatInfinite, FALSE)
DelayedTwiceReversing == TimeScale(2, 1, RepeatTimes(1), TRUE)

TimeScales == {Once, DelayedTwice, OnceReversing, Forever, DelayedTwiceReversing}

Config(k, ts) == TimelineConfiguration(k, ts.duration, ts.delay, ts.repeat, ts.reverse)

\* what StateAnimatorBuilder::on receives for a state: one timeline (every
\* keyframe list played once, the full list under every time scale, sparse
\* lists under a reversing one), or a MergedTimeline of two
MergedConfigs ==
    { <<Config(k, Once)>> : k \in KeyframeLists }
    \cup { <<Config(KFull, ts)>> : ts \in TimeScales }
    \cup { <<Config(KLateY, OnceReversing)>>, <<Config(KMid, DelayedTwiceReversing)>> }
    \cup { <<Config(KFull, Once), Config(KLastX, DelayedTwice)>>,
           <<Config(KFull, DelayedTwice), Config(KEmpty, Once)>>,
           <<Config(KOnlyX, Once), Config(KMid, OnceReversing)>>,
           <<Config(KSparse, Once), Config(KLateY, Once)>> }

\* the timelines offered for the second state
OtherConfigs ==
    { <<Config(KFull, ts)>> : ts \in TimeScales } \cup { <<Config(KLastX, Once)>> }

\* a state may have no timeline
OptionalConfigs ==
    { [some |-> TRUE, configs |-> m] : m \in OtherConfigs }
    \cup { [some |-> FALSE, configs |-> <<>>] }

InitialValues == { Data(0, 0), Data(25, 123) }

States == {"A", "B"}
InitialState == "A"

NoTimeline == [some |-> FALSE, timelines |-> <<>>]

RECURSIVE BuildMerged(_, _)
BuildMerged(configs, overflow_checks) ==
    IF configs = <<>> THEN <<>>
    ELSE <<BuildTimeline(Head(configs), overflow_checks)>>
         \o BuildMerged(Tail(configs), overflow_checks)

(***************************************************************************)
(* MappedTimelineAnimator (animator.rs)                                    *)
(***************************************************************************)
VARIABLES
    overflow_checks,  \* whether the build checks integer overflow (debug) or wraps (release)
    configs,          \* what the builder was given: State -> Option of configurations
    initial_values,   \* from_values, or Default
    timelines,        \* State -> Option<MergedTimeline>
    current_state,
    current_values,
    state_duration,   \* seconds
    panicked,         \* a panic has unwound out of the builder or the animator
    transitions,      \* number of state changes so far
    time_in_state,    \* State -> seconds advanced while it was the current state
    last_op,          \* the call that produced this state
    prev              \* the animator's fields before that call

\* The parts of the core that are functions of their arguments are exercised
\* on their own, each under a specification of its own (TimeScaleSpec,
\* MergedSpec, TrackSpec below); their variables rest while the animator runs.
VARIABLES
    scale,            \* a TimeScale
    clock,            \* the time last passed to scale.get_position
    position,         \* what get_position returned
    total,            \* what scale.get_duration returned
    components,       \* the timelines of a MergedTimeline
    merged,           \* what the MergedTimeline last reported of delay / duration / repeat
    track_keyframes,  \* the keyframes a SubTimeline is built from, in ascending time order
    track_default,    \* the default value it is built with
    track_easing,     \* the default easing it is built with
    track,            \* the SubTimeline of property x
    query,            \* the position last passed to track.value_at
    result,           \* what value_at returned
    declaration,      \* a TimelineConfiguration as declared so far
    arguments,        \* the TimelineBuilderArguments made from it, once made
    bevy_animator,    \* the Animator component of an entity (bevy/animator.rs)
    bevy_target,      \* the component it animates
    bevy_events,      \* the AnimationStateChanged events sent so far
    bevy_applied      \* the timeline positions the target was updated at since the last reset

animator_vars == <<configs, initial_values, timelines, current_state, current_values,
                   state_duration, panicked, transitions, time_in_state, last_op, prev>>
timescale_vars == <<scale, clock, position, total>>
merged_vars == <<components, merged>>
track_vars == <<track_keyframes, track_default, track_easing, track, query, result>>

builder_vars == <<declaration, arguments>>
bevy_vars == <<bevy_animator, bevy_target, bevy_events, bevy_applied>>

vars == <<overflow_checks, animator_vars, timescale_vars, merged_vars, track_vars,
          builder_vars, bevy_vars>>

\* no call made yet
NoPosition == [kind |-> "None", t |-> RZero, is_repeating |-> FALSE, is_reversing |-> FALSE]
NoTotal == [called |-> FALSE, panic |-> FALSE, duration |-> Finite(0)]
NoMerged == [op |-> "none", panic |-> FALSE, delay |-> 0, duration |-> Finite(0),
             repeat |-> RepeatNone]
NoQuery == [asked |-> FALSE, normalized_time |-> RZero, index_hint |-> 0]

TimeScaleIdle ==
    /\ scale = TimeScale(1, 0, RepeatNone, FALSE)
    /\ clock = 0
    /\ position = NoPosition
    /\ total = NoTotal

MergedIdle == components = <<>> /\ merged = NoMerged

TrackIdle ==
    /\ track_keyframes = <<>>
    /\ track_default = DefaultValue
    /\ track_easing = "Linear"
    /\ track = from_keyframes(<<>>, DefaultValue, "x", "Linear", FALSE)
    /\ query = NoQuery
    /\ result = NoWrite

\* TimelineConfiguration::default()
DefaultConfiguration == TimelineConfiguration(<<>>, 1, 0, RepeatNone, FALSE)

NoArguments == [some |-> FALSE, args |-> BuilderArguments(DefaultConfiguration)]

BuilderIdle == declaration = DefaultConfiguration /\ arguments = NoArguments

\* Animator::new(): enabled, no timeline, AnimationState::None
NewAnimator ==
    [enabled |-> TRUE, timeline_position |-> 0, has_timeline |-> FALSE,
     timeline |-> BuildTimeline(DefaultConfiguration, FALSE), state |-> "None"]

BevyIdle ==
    /\ bevy_animator = NewAnimator
    /\ bevy_target = [some |-> TRUE, values |-> Data(DefaultValue, DefaultValue)]
    /\ bevy_events = <<>>
    /\ bevy_applied = {}

Fields == [timelines |-> timelines, current_state |-> current_state,
           current_values |-> current_values, state_duration |-> state_duration]

\* a set_state that forgets to rebase the next timeline
blend_next_timeline_skipped(map, state, values) == map

\* blend_next_timeline: the map after rebasing the timeline of `state`
blend_next_timeline(map, state, values) ==
    IF map[state].some
    THEN [map EXCEPT ![state].timelines = MergedStartWith(map[state].timelines, values)]
    ELSE map

\* an animator that keeps playing the initial state's timeline in a state without one
update_current_values_fallback(map, state, values, duration) ==
    IF map[state].some THEN MergedUpdate(map[state].timelines, values, duration)
    ELSE MergedUpdate(map[InitialState].timelines, values, duration)

\* update_current_values
update_current_values(map, state, values, duration) ==
    IF map[state].some THEN MergedUpdate(map[state].timelines, values, duration)
    ELSE [values |-> values, panic |-> FALSE]

MapPanics(map) ==
    \E s \in States : \E i \in 1..Len(map[s].timelines) : BuildPanics(map[s].timelines[i])

\* an advance that evaluates the timeline at the time step, not at the accumulated time
AdvanceFieldsAtStep(f, elapsed_seconds) ==
    LET r == update_current_values(f.timelines, f.current_state, f.current_values,
                                   elapsed_seconds)
    IN  [timelines |-> f.timelines, current_state |-> f.current_state,
         current_values |-> r.values, state_duration |-> f.state_duration + elapsed_seconds,
         panic |-> r.panic]

\* the fields after StateAnimator::advance(elapsed_seconds)
AdvanceFields(f, elapsed_seconds) ==
    LET duration == f.state_duration + elapsed_seconds
        r == update_current_values(f.timelines, f.current_state, f.current_values, duration)
    IN  [timelines |-> f.timelines, current_state |-> f.current_state,
         current_values |-> r.values, state_duration |-> duration, panic |-> r.panic]

\* a set_state without the early return for the current state
SetStateFieldsRestart(f, state) ==
    LET blended == blend_next_timeline(f.timelines, state, f.current_values)
        r == update_current_values(blended, state, f.current_values, 0)
    IN  [timelines |-> blended, current_state |-> state,
         current_values |-> r.values, state_duration |-> 0, panic |-> r.panic]

\* the fields after StateAnimator::set_state(state)
SetStateFields(f, state) ==
    LET blended == blend_next_timeline(f.timelines, state, f.current_values)
        r == update_current_values(blended, state, f.current_values, 0)
    IN  IF state = f.current_state
        THEN [timelines |-> f.timelines, current_state |-> f.current_state,
              current_values |-> f.current_values, state_duration |-> f.state_duration,
              panic |-> FALSE]
        ELSE [timelines |-> blended, current_state |-> state,
              current_values |-> r.values, state_duration |-> 0, panic |-> r.panic]

\* StateAnimatorBuilder: on(A, ..), optionally on(B, ..), from_values, build
Init ==
    \E checks \in BOOLEAN, a \in MergedConfigs, b \in OptionalConfigs,
       values \in InitialValues :
        LET given == [s \in States |-> IF s = "A" THEN [some |-> TRUE, configs |-> a] ELSE b]
            built == [s \in States |->
                        [some |-> given[s].some,
                         timelines |-> BuildMerged(given[s].configs, checks)]]
        IN  /\ overflow_checks = checks
            /\ configs = given
            /\ initial_values = values
            /\ panicked = MapPanics(built)
            /\ timelines = IF MapPanics(built) THEN built
                           ELSE blend_next_timeline(built, InitialState, values)
            /\ current_state = InitialState
            /\ current_values = values
            /\ state_duration = 0
            /\ transitions = 0
            /\ time_in_state = [s \in States |-> 0]
            /\ last_op = [kind |-> "new", state |-> InitialState, dt |-> 0]
            /\ prev = [timelines |-> built, current_state |-> InitialState,
                       current_values |-> values, state_duration |-> 0]
            /\ TimeScaleIdle /\ MergedIdle /\ TrackIdle /\ BuilderIdle /\ BevyIdle

Apply(f) ==
    /\ timelines' = f.timelines
    /\ current_state' = f.current_state
    /\ current_values' = f.current_values
    /\ state_duration' = f.state_duration
    /\ panicked' = f.panic
    /\ prev' = Fields
    /\ UNCHANGED <<overflow_checks, configs, initial_values>>
    /\ UNCHANGED <<timescale_vars, merged_vars, track_vars, builder_vars, bevy_vars>>

\* seconds advanced since construction
TotalElapsed == time_in_state["A"] + time_in_state["B"]

\* StateAnimator::advance(elapsed_seconds)
advance(elapsed_seconds) ==
    /\ ~panicked
    /\ TotalElapsed < MaxElapsed
    /\ Apply(AdvanceFields(Fields, elapsed_seconds))
    /\ time_in_state' = [time_in_state EXCEPT ![current_state] = @ + elapsed_seconds]
    /\ last_op' = [kind |-> "advance", state |-> current_state, dt |-> elapsed_seconds]
    /\ UNCHANGED transitions

\* StateAnimator::set_state(state)
set_state(state) ==
    /\ ~panicked
    /\ state = current_state \/ transitions < MaxTransitions
    /\ Apply(SetStateFields(Fields, state))
    /\ transitions' = IF state = current_state THEN transitions ELSE transitions + 1
    /\ last_op' = [kind |-> "set_state", state |-> state, dt |-> 0]
    /\ UNCHANGED time_in_state

Next ==
    \/ \E dt \in 1..MaxStep : advance(dt)
    \/ \E s \in States : set_state(s)

Spec == Init /\ [][Next]_vars

TypeOK ==
    /\ current_state \in States
    /\ state_duration \in 0..(MaxElapsed + MaxStep)
    /\ \A p \in Props : current_values[p] \in 0..U8Max

(***************************************************************************)
(* Properties of the animator                                              *)
(***************************************************************************)
Advanced == last_op.kind = "advance"
\* the last call was a set_state that changed the state
Changed == last_op.kind = "set_state" /\ last_op.state # prev.current_state
\* the last call was a set_state to the state the animator was in
Repeated == last_op.kind = "set_state" /\ last_op.state = prev.current_state

\* the keyframes of component i of the timeline given for state s
KeyframesOf(s, i) == configs[s].configs[i].keyframes
Components(s) == 1..Len(configs[s].configs)

\* C1: blend continuity.  set_state(s) with s other than the current state,
\* where s has a timeline, leaves current_values as they were before the
\* call, whatever the 0% keyframe of s declares.
C1_BlendContinuity ==
    (Changed /\ prev.timelines[last_op.state].some)
        => (~panicked /\ current_values = prev.current_values)

\* a state change, after time had advanced, into a timeline whose 0% keyframe
\* declares a value other than the live one
C1_Witness ==
    /\ Changed /\ timelines[current_state].some /\ prev.state_duration > 0
    /\ \E i \in Components(current_state), p \in Props :
          LET first == KeyframesOf(current_state, i)[1]
          IN  /\ KeyframesOf(current_state, i) # <<>>
              /\ REq(first.normalized_time, RZero)
              /\ first.data[p].some
              /\ first.data[p].v # current_values[p]

\* C3: set_state(s) with s other than the current state, where s has no
\* timeline, makes s the current state, resets the elapsed time to 0 and
\* leaves current_values unchanged; every advance made while the current
\* state has no timeline leaves current_values unchanged.
C3_UntimelinedStateFreezes ==
    /\ (Changed /\ ~prev.timelines[last_op.state].some)
          => /\ current_state = last_op.state
             /\ state_duration = 0
             /\ current_values = prev.current_values
             /\ ~panicked
    /\ (Advanced /\ ~timelines[current_state].some)
          => /\ current_values = prev.current_values
             /\ state_duration = prev.state_duration + last_op.dt
             /\ ~panicked

\* a second advance in a state without a timeline, entered while the
\* previous animation had moved the values
C3_Witness ==
    /\ Advanced /\ ~timelines[current_state].some
    /\ prev.state_duration > 0
    /\ current_values # initial_values

\* C8: set_state(s) with s the current state changes nothing: not the state,
\* the elapsed time, the values, nor the start values of any timeline.
C8_SetSameStateIsNoOp ==
    Repeated => (Fields = prev /\ ~panicked)

\* set_state to the current state while its animation is running and the
\* values have moved away from the start values of its timeline
C8_Witness ==
    /\ Repeated /\ timelines[current_state].some
    /\ state_duration > 0
    /\ LET d == MergedDuration(timelines[current_state].timelines)
       IN  ~d.finite \/ state_duration < d.secs
    /\ \E i \in Components(current_state), p \in Props :
          LET sub == timelines[current_state].timelines[i].t[p]
          IN  sub.start_override.some /\ sub.start_override.v # current_values[p]

\* the timeline of the current state
Current == timelines[current_state].timelines

\* whether `time` lies in the initial delay or the forward pass of the first cycle
InFirstForward(ts, time) ==
    LET e == time - ts.delay
    IN  e < 0 \/ (IF ts.reverse THEN 2 * e <= ts.duration ELSE e <= ts.duration)

\* whether a reversing time scale has come back to the 0% position at `time`:
\* at the end of a cycle, or after the end of the timeline
BackAtStart(ts, time) ==
    LET e == time - ts.delay
    IN  ts.reverse /\ e > 0
        /\ (e % ts.duration = 0
            \/ (ts.repeat.kind # "Infinite" /\ e > ts.duration * (as_ordinal(ts.repeat) + 1)))

\* the timeline as configured, without the start values of a rebase
Original(timeline) ==
    [timeline EXCEPT !.t = [p \in Props |-> [timeline.t[p] EXCEPT !.start_override = None]]]

\* each component with its rebased start values in the delay and the first
\* forward pass only
FirstPassRebased(tls, time) ==
    [i \in 1..Len(tls) |->
        IF InFirstForward(tls[i].timescale, time) THEN tls[i] ELSE Original(tls[i])]

\* property p has a value in a keyframe at 0%
DefinedAtStart(keyframes, p) ==
    \E k \in 1..Len(keyframes) :
        REq(keyframes[k].normalized_time, RZero) /\ keyframes[k].data[p].some

ValueAtStart(keyframes, p) ==
    LET k == CHOOSE k \in 1..Len(keyframes) :
                REq(keyframes[k].normalized_time, RZero) /\ keyframes[k].data[p].some
    IN  keyframes[k].data[p].v

\* C2: the start values of a rebase are used only during the initial delay
\* and the forward pass of the first cycle: at every other time an advance
\* yields what the timeline as configured yields, and where a reversing
\* timeline is back at 0% (end of a reverse pass, or after its end) the
\* properties its 0% keyframe defines have the configured values.
C2_RebaseFirstForwardPassOnly ==
    (Advanced /\ timelines[current_state].some /\ ~panicked) =>
        /\ current_values =
              MergedUpdate(FirstPassRebased(Current, state_duration),
                           prev.current_values, state_duration).values
        /\ LET last == Len(Current)
           IN  (last > 0 /\ BackAtStart(Current[last].timescale, state_duration)) =>
                 \A p \in Props :
                    DefinedAtStart(KeyframesOf(current_state, last), p) =>
                        current_values[p] = ValueAtStart(KeyframesOf(current_state, last), p)

\* a rebased reversing timeline back at 0%: the value is the configured one,
\* not the one it was rebased to
C2_Witness ==
    /\ Advanced /\ timelines[current_state].some /\ ~panicked /\ Len(Current) > 0
    /\ BackAtStart(Current[Len(Current)].timescale, state_duration)
    /\ \E p \in Props :
          LET sub == Current[Len(Current)].t[p]
              keyframes == KeyframesOf(current_state, Len(Current))
          IN  /\ DefinedAtStart(keyframes, p)
              /\ sub.start_override.some
              /\ sub.start_override.v # ValueAtStart(keyframes, p)
              /\ current_values[p] = ValueAtStart(keyframes, p)

\* property p has a value in some keyframe
Defined(keyframes, p) == \E k \in 1..Len(keyframes) : keyframes[k].data[p].some

\* the value of p in the latest keyframe that defines it
LastDefinedValue(keyframes, p) ==
    LET k == CHOOSE k \in 1..Len(keyframes) :
                /\ keyframes[k].data[p].some
                /\ \A j \in 1..Len(keyframes) :
                      keyframes[j].data[p].some =>
                        /\ RLe(keyframes[j].normalized_time, keyframes[k].normalized_time)
                        /\ (REq(keyframes[j].normalized_time, keyframes[k].normalized_time)
                              => j <= k)
    IN  keyframes[k].data[p].v

\* C9: advance(dt) adds dt to the elapsed time and evaluates the timeline of
\* the current state at the accumulated time; once the elapsed time exceeds
\* the total duration of a timeline that does not repeat forever, further
\* advances leave current_values unchanged, at the 100% values, or at the
\* configured 0% values when the timeline reverses.
C9_AdvanceAccumulatesAndHolds ==
    Advanced =>
        /\ state_duration = prev.state_duration + last_op.dt
        /\ (timelines[current_state].some /\ ~panicked) =>
              LET d == MergedDuration(Current)
                  last == Len(Current)
              IN  /\ current_values =
                        MergedUpdate(Current, prev.current_values,
                                     prev.state_duration + last_op.dt).values
                  /\ (d.finite /\ prev.state_duration > d.secs) =>
                        current_values = prev.current_values
                  /\ (d.finite /\ state_duration > d.secs /\ last > 0) =>
                        \A p \in Props :
                            LET keyframes == KeyframesOf(current_state, last)
                            IN  IF Current[last].timescale.reverse
                                THEN DefinedAtStart(keyframes, p) =>
                                       current_values[p] = ValueAtStart(keyframes, p)
                                ELSE Defined(keyframes, p) =>
                                       current_values[p] = LastDefinedValue(keyframes, p)

\* a further advance after the end of a rebased reversing timeline
C9_Witness ==
    /\ Advanced /\ timelines[current_state].some /\ ~panicked /\ Len(Current) > 0
    /\ MergedDuration(Current).finite
    /\ prev.state_duration > MergedDuration(Current).secs
    /\ Current[Len(Current)].timescale.reverse
    /\ \E p \in Props :
          /\ DefinedAtStart(KeyframesOf(current_state, Len(Current)), p)
          /\ current_values[p] # initial_values[p]

\* what component i of the current timeline writes to p at the elapsed time
Written(i, p) ==
    LET tl == Current[i]
        frame == prepare_frame(state_duration, tl.boundary_times, tl.timescale)
        r == value_at(tl.t[p], frame.normalized_time, frame.frame_index,
                      frame.enable_start_override)
    IN  [some |-> frame.some /\ r.some, v |-> r.v]

Writers(p) == {i \in 1..Len(Current) : Written(i, p).some}

Last(S) == CHOOSE i \in S : \A j \in S : j <= i

\* C10: MergedTimeline.update applies its components in list order: a field
\* that several components write has the value written by the last of them,
\* a field only an earlier component writes keeps that value, and a field no
\* component writes is left alone.
C10_MergedLastWriterWins ==
    (Advanced /\ timelines[current_state].some /\ ~panicked) =>
        \A p \in Props :
            IF Writers(p) = {} THEN current_values[p] = prev.current_values[p]
            ELSE current_values[p] = Written(Last(Writers(p)), p).v

\* two components write different values to x, and only the first writes y
C10_Witness ==
    /\ Advanced /\ timelines[current_state].some /\ ~panicked /\ Len(Current) = 2
    /\ Writers("x") = {1, 2}
    /\ Written(1, "x").v # Written(2, "x").v
    /\ current_values["x"] = Written(2, "x").v
    /\ Writers("y") = {1}
    /\ current_values["y"] = Written(1, "y").v
    /\ current_values["y"] # prev.current_values["y"]

\* the timeline of the initial state as built and rebased at construction and
\* never interrupted since
Uninterrupted ==
    MergedStartWith(BuildMerged(configs[InitialState].configs, overflow_checks),
                    initial_values)

\* what the uninterrupted timeline writes over `target` after the time the
\* animator has spent in the initial state
UninterruptedValues(target) ==
    MergedUpdate(Uninterrupted, target, time_in_state[InitialState]).values

\* C4: a state with no timeline pauses the animation.  Back in the original
\* state, every advance yields, for each property the timeline writes, the
\* value the uninterrupted timeline has after the time accumulated in that
\* state.
C4_ResumesWherePaused ==
    (/\ Advanced /\ ~panicked
     /\ current_state = InitialState /\ transitions > 0
     /\ ~timelines["B"].some) =>
        \A p \in Props :
            UninterruptedValues(Data(0, 0))[p] = UninterruptedValues(Data(1, 1))[p]
                => current_values[p] = UninterruptedValues(Data(0, 0))[p]

\* no component of the timeline given for state s defines p in a keyframe
Unmentioned(s, p) == \A i \in Components(s) : ~Defined(KeyframesOf(s, i), p)

\* the keyframes after 0% that define p
LaterDefining(keyframes, p) ==
    {k \in 1..Len(keyframes) :
        keyframes[k].data[p].some /\ RLt(RZero, keyframes[k].normalized_time)}

\* the earliest of them
NextDefining(keyframes, p) ==
    CHOOSE k \in LaterDefining(keyframes, p) :
        \A j \in LaterDefining(keyframes, p) :
            RLe(keyframes[k].normalized_time, keyframes[j].normalized_time)

\* C5 (construction): before any advance the animator reports the initial values
C5_ReportsInitialValues ==
    (last_op.kind = "new" /\ ~panicked) => current_values = initial_values

\* C5 (rebase): in the forward pass of the first cycle of the initial state's
\* timeline, up to the first keyframe after 0% that defines a property, the
\* property is interpolated from its initial value toward that keyframe
C5_InterpolatesFromInitialValues ==
    (/\ Advanced /\ ~panicked /\ transitions = 0
     /\ timelines[current_state].some /\ Len(Current) = 1) =>
        LET ts == Current[1].timescale
            pos == get_position(ts, state_duration)
            keyframes == KeyframesOf(current_state, 1)
        IN  (pos.kind = "Active" /\ InFirstForward(ts, state_duration)) =>
              \A p \in Props :
                 LaterDefining(keyframes, p) # {} =>
                    LET next == keyframes[NextDefining(keyframes, p)]
                    IN  RLe(pos.t, next.normalized_time) =>
                          current_values[p] =
                            lerp(initial_values[p], next.data[p].v,
                                 RDiv(pos.t, next.normalized_time)).v

\* C5 (unanimated fields): a field the timeline of the initial state does not
\* animate keeps its initial value
C5_UnanimatedKeepInitialValue ==
    (Advanced /\ ~panicked /\ transitions = 0 /\ timelines[current_state].some) =>
        \A p \in Props :
            Unmentioned(current_state, p) => current_values[p] = initial_values[p]

\* C5: a newly built animator reports the initial values, its timeline is
\* rebased to them, and the fields the timeline does not animate keep their
\* initial value.
C5_InitialValues ==
    /\ C5_ReportsInitialValues
    /\ C5_InterpolatesFromInitialValues
    /\ C5_UnanimatedKeepInitialValue

\* C7: update never changes a field whose property is in no keyframe of the
\* timeline: an advance in a state whose timeline does not mention a property
\* leaves the property as it was.
C7_UnmentionedPropertyUntouched ==
    (Advanced /\ ~panicked /\ timelines[current_state].some) =>
        \A p \in Props :
            Unmentioned(current_state, p) => current_values[p] = prev.current_values[p]

\* the keyframes of `keyframes` that define p, at or before / after time t
DefiningUpTo(keyframes, p, t) ==
    {k \in 1..Len(keyframes) :
        keyframes[k].data[p].some /\ RLe(keyframes[k].normalized_time, t)}

DefiningAfter(keyframes, p, t) ==
    {k \in 1..Len(keyframes) :
        keyframes[k].data[p].some /\ RLt(t, keyframes[k].normalized_time)}

\* the latest of a set of keyframes (the later declared among equal times)
Latest(keyframes, S) ==
    CHOOSE k \in S : \A j \in S :
        /\ RLe(keyframes[j].normalized_time, keyframes[k].normalized_time)
        /\ REq(keyframes[j].normalized_time, keyframes[k].normalized_time) => j <= k

\* the earliest of a set of keyframes (the earlier declared among equal times)
Earliest(keyframes, S) ==
    CHOOSE k \in S : \A j \in S :
        /\ RLe(keyframes[k].normalized_time, keyframes[j].normalized_time)
        /\ REq(keyframes[j].normalized_time, keyframes[k].normalized_time) => k <= j

\* the value of p at normalized time t by the reference semantics of sparse
\* keyframes: from the latest keyframe at or before t that defines p, or a
\* frame at 0% with `synthesized` when there is none, toward the earliest
\* later keyframe that defines p; `start` stands for the value at 0% while
\* the timeline plays from rebased start values
ReferenceValue(keyframes, p, t, synthesized, start, easing) ==
    LET before == DefiningUpTo(keyframes, p, t)
        after == DefiningAfter(keyframes, p, t)
        from == IF before = {} THEN [normalized_time |-> RZero, v |-> synthesized]
                ELSE LET k == Latest(keyframes, before)
                     IN  [normalized_time |-> keyframes[k].normalized_time,
                          v |-> keyframes[k].data[p].v]
        from_v == IF start.some /\ REq(from.normalized_time, RZero) THEN start.v ELSE from.v
    IN  IF after = {} THEN from_v
        ELSE LET to == keyframes[Earliest(keyframes, after)]
             IN  lerp(from_v, to.data[p].v,
                      calc(easing,
                           RDiv(RSub(t, from.normalized_time),
                                RSub(to.normalized_time, from.normalized_time)))).v

\* C6: sparse keyframes.  A timeline can be built whichever keyframes leave a
\* property out, and for every property some keyframe defines, what each
\* timeline writes at its position is the value interpolated between the
\* latest keyframe at or before the position that defines the property (or
\* the synthesized 0% frame) and the earliest later one that defines it; the
\* keyframes that do not define the property change nothing.
C6_SparseKeyframes ==
    /\ last_op.kind = "new" => ~panicked
    /\ (Advanced /\ ~panicked /\ timelines[current_state].some) =>
         \A i \in Components(current_state), p \in Props :
            LET keyframes == SortKeyframes(KeyframesOf(current_state, i))
                tl == Current[i]
                frame == prepare_frame(state_duration, tl.boundary_times, tl.timescale)
            IN  Defined(keyframes, p) =>
                   /\ Written(i, p).some
                   /\ Written(i, p).v =
                        ReferenceValue(keyframes, p, RClamp01(frame.normalized_time),
                                       DefaultValue,
                                       IF frame.enable_start_override
                                       THEN tl.t[p].start_override ELSE None,
                                       configs[current_state].configs[i].default_easing)

(***************************************************************************)
(* TimeScale on its own: a time scale is created, then asked for positions *)
(* and for its total duration                                              *)
(***************************************************************************)
\* longest cycle duration, in seconds
MaxCycle == 4
\* longest delay, in seconds
MaxDelay == 2
\* largest small k of Repeat::Times(k)
MaxTimes == 2
\* latest time passed to get_position, in seconds
MaxClock == 15

\* Repeat::None, Times(k) for small k and for the largest u32, Infinite
Repeats ==
    {RepeatNone, RepeatInfinite, RepeatTimes(U32Max)} \cup {RepeatTimes(k) : k \in 0..MaxTimes}

\* the animator while one of the functions is exercised on its own
AnimatorIdle ==
    /\ configs = [s \in States |-> [some |-> FALSE, configs |-> <<>>]]
    /\ initial_values = Data(DefaultValue, DefaultValue)
    /\ timelines = [s \in States |-> NoTimeline]
    /\ current_state = InitialState
    /\ current_values = Data(DefaultValue, DefaultValue)
    /\ state_duration = 0
    /\ panicked = FALSE
    /\ transitions = 0
    /\ time_in_state = [s \in States |-> 0]
    /\ last_op = [kind |-> "idle", state |-> InitialState, dt |-> 0]
    /\ prev = [timelines |-> [s \in States |-> NoTimeline], current_state |-> InitialState,
               current_values |-> Data(DefaultValue, DefaultValue), state_duration |-> 0]

\* a panic instead of a position
PositionPanic == [kind |-> "Panic", t |-> RZero, is_repeating |-> FALSE, is_reversing |-> FALSE]

\* TimeScale::new
TimeScaleInit ==
    \E checks \in BOOLEAN, duration \in 1..MaxCycle, delay \in 0..MaxDelay,
       repeat \in Repeats, reverse \in BOOLEAN :
        /\ overflow_checks = checks
        /\ scale = TimeScale(duration, delay, repeat, reverse)
        /\ clock = 0
        /\ position = NoPosition
        /\ total = NoTotal
        /\ AnimatorIdle /\ MergedIdle /\ TrackIdle /\ BuilderIdle /\ BevyIdle

\* scale.get_position(time)
TimeScale_get_position(time) ==
    /\ clock' = time
    /\ position' = IF overflow_checks /\ get_position_panics(scale, time) THEN PositionPanic
                   ELSE get_position(scale, time)
    /\ UNCHANGED <<overflow_checks, scale, total, animator_vars, merged_vars, track_vars,
                   builder_vars, bevy_vars>>

\* scale.get_duration()
TimeScale_get_duration ==
    /\ total' = [called |-> TRUE,
                 panic |-> overflow_checks /\ get_duration_panics(scale),
                 duration |-> get_duration(scale)]
    /\ UNCHANGED <<overflow_checks, scale, clock, position, animator_vars, merged_vars,
                   track_vars, builder_vars, bevy_vars>>

TimeScaleNext ==
    \/ \E time \in 0..MaxClock : TimeScale_get_position(time)
    \/ TimeScale_get_duration

TimeScaleSpec == TimeScaleInit /\ [][TimeScaleNext]_vars

\* seconds since the end of the delay
SinceStart == clock - scale.delay

\* the number of cycles of the time scale is beyond every time of the model
\* (Repeat::Infinite, or so many cycles that none of these times ends them)
Unending(ts) == ts.repeat.kind = "Infinite" \/ as_ordinal(ts.repeat) >= MaxClock

\* time t after the delay lies after the last of the (k + 1) cycles
AfterLastCycle(ts, t) == ~Unending(ts) /\ t > ts.duration * (as_ordinal(ts.repeat) + 1)

\* time t after the delay lies in the active window
InWindow(ts, t) == t >= 0 /\ ~AfterLastCycle(ts, t)

\* the time within the cycle that holds time t after the delay: the remainder,
\* but the whole cycle duration at the exact end of a completed cycle
CycleTime(ts, t) == IF t > 0 /\ t % ts.duration = 0 THEN ts.duration ELSE t % ts.duration

\* the normalized time of cycle time c: forward only, or up and back down
Normalized(ts, c) ==
    IF ~ts.reverse THEN Rat(c, ts.duration)
    ELSE IF 2 * c <= ts.duration THEN Rat(2 * c, ts.duration)
    ELSE Rat(2 * (ts.duration - c), ts.duration)

\* C11: cycle-boundary exactness.  For Repeat::Times(k) and Repeat::Infinite,
\* at a time that is an exact positive multiple m of the cycle duration after
\* the delay, inside the active window, get_position is Active at the end of
\* the completed cycle (normalized 1, or 0 when reversing) with is_repeating
\* = (m > 1); at every other time of the window the cycle time is the
\* remainder and is_repeating = (time - delay >= cycle_duration).
C11_CycleBoundaryHold ==
    (/\ position.kind # "None"
     /\ scale.repeat.kind \in {"Times", "Infinite"}
     /\ InWindow(scale, SinceStart)) =>
        LET d == scale.duration
            m == SinceStart \div d
        IN  /\ position.kind = "Active"
            /\ IF SinceStart > 0 /\ SinceStart % d = 0
               THEN /\ REq(position.t, IF scale.reverse THEN RZero ELSE ROne)
                    /\ position.is_repeating = (m > 1)
               ELSE /\ REq(position.t, Normalized(scale, SinceStart % d))
                    /\ position.is_repeating = (SinceStart >= d)

\* C12: get_position returns Ended exactly when time - delay exceeds
\* cycle_duration * (k + 1) (k = 0 for Repeat::None), never for
\* Repeat::Infinite; at the bound itself and before it, once the delay has
\* passed, the position is Active; Ended carries 0 when reversing, else 1.
C12_EndedExactlyAfterLastCycle ==
    position.kind # "None" =>
        /\ position.kind = "Ended" <=> (SinceStart >= 0 /\ AfterLastCycle(scale, SinceStart))
        /\ InWindow(scale, SinceStart) => position.kind = "Active"
        /\ scale.repeat.kind = "Infinite" => position.kind # "Ended"
        /\ position.kind = "Ended" =>
              REq(position.t, IF scale.reverse THEN RZero ELSE ROne)

\* C13: delay gating.  Before the delay has passed get_position is
\* NotStarted; at time = delay it is Active(0, not repeating, not reversing)
\* for every repeat and reverse setting; after it the position is that of the
\* same time scale without delay at time - delay.
C13_DelayGating ==
    position.kind # "None" =>
        /\ clock < scale.delay => position.kind = "NotStarted"
        /\ clock = scale.delay =>
              /\ position.kind = "Active" /\ REq(position.t, RZero)
              /\ ~position.is_repeating /\ ~position.is_reversing
        /\ clock > scale.delay =>
              /\ position.kind \in {"Active", "Ended"}
              /\ position = get_position([scale EXCEPT !.delay = 0], SinceStart)

\* the instant of the same cycle as far after its midpoint as time t (after
\* the delay) is before it, or the reverse
Mirror(ts, t) == t + ts.duration - 2 * CycleTime(ts, t)

\* C14: reverse symmetry.  With reverse set, an Active position has
\* normalized time 2 * cycle_ratio, not reversing, up to mid-cycle, and
\* 2 * (1 - cycle_ratio), reversing, after it: 1 at mid-cycle, 0 at the cycle
\* end, and the same at two instants of a cycle equidistant from its midpoint.
C14_ReverseSymmetry ==
    (position.kind = "Active" /\ scale.reverse) =>
        LET d == scale.duration
            c == CycleTime(scale, SinceStart)
            other == get_position(scale, scale.delay + Mirror(scale, SinceStart))
        IN  /\ IF 2 * c <= d
               THEN REq(position.t, Rat(2 * c, d)) /\ ~position.is_reversing
               ELSE REq(position.t, Rat(2 * (d - c), d)) /\ position.is_reversing
            /\ 2 * c = d => REq(position.t, ROne)
            /\ c = d => REq(position.t, RZero)
            /\ REq(other.t, position.t)

\* on the way back in a repeated cycle, strictly between the ends
C14_Witness ==
    /\ position.kind = "Active" /\ scale.reverse
    /\ position.is_reversing /\ position.is_repeating
    /\ RLt(RZero, position.t) /\ RLt(position.t, ROne)
    /\ Mirror(scale, SinceStart) # SinceStart

\* C15: the total duration is delay + cycle_duration * (k + 1) for
\* Repeat::Times(k) with any k (k = 0 for Repeat::None) and infinite exactly
\* for Repeat::Infinite, and get_position reports Ended exactly after it.
C15_TotalDuration ==
    /\ total.called =>
          /\ ~total.panic
          /\ ~total.duration.finite <=> scale.repeat = RepeatInfinite
          /\ total.duration.finite =>
                LET cycles == total.duration.secs - scale.delay
                IN  /\ cycles % scale.duration = 0
                    /\ (cycles \div scale.duration) - 1 = as_ordinal(scale.repeat)
    /\ (total.called /\ total.duration.finite /\ position.kind # "None") =>
          /\ position.kind # "Panic"
          /\ position.kind = "Ended" <=> clock > total.duration.secs

(***************************************************************************)
(* MergedTimeline on its own: a composite of timelines is created, then    *)
(* asked for its delay, duration and repeat                                *)
(***************************************************************************)
\* most components of a composite
MaxComponents == 3

\* the time scales of the components: two cycle durations, two delays, and
\* Repeat::None, Times(1), Times of the largest u32, Infinite
ComponentScales ==
    {TimeScale(duration, delay, repeat, FALSE) :
        duration \in {1, 2}, delay \in {1, 3},
        repeat \in {RepeatNone, RepeatTimes(1), RepeatTimes(U32Max), RepeatInfinite}}

\* a timeline as far as the composite asks it: its time scale
StubTimeline(ts) == [timescale |-> ts]

\* MergedTimeline::of
MergedInit ==
    \E checks \in BOOLEAN, n \in 0..MaxComponents :
        \E scales \in [1..n -> ComponentScales] :
            /\ overflow_checks = checks
            /\ components = [i \in 1..n |-> StubTimeline(scales[i])]
            /\ merged = NoMerged
            /\ AnimatorIdle /\ TimeScaleIdle /\ TrackIdle /\ BuilderIdle /\ BevyIdle

\* merged.delay()
MergedTimeline_delay ==
    /\ merged' = [NoMerged EXCEPT !.op = "delay", !.delay = MergedDelay(components)]
    /\ UNCHANGED <<overflow_checks, components, animator_vars, timescale_vars, track_vars,
                   builder_vars, bevy_vars>>

\* merged.duration(): every component's duration() is taken first
MergedTimeline_duration ==
    /\ merged' = [NoMerged EXCEPT
                    !.op = "duration",
                    !.panic = /\ overflow_checks
                              /\ \E i \in 1..Len(components) :
                                    get_duration_panics(components[i].timescale),
                    !.duration = MergedDuration(components)]
    /\ UNCHANGED <<overflow_checks, components, animator_vars, timescale_vars, track_vars,
                   builder_vars, bevy_vars>>

\* merged.repeat()
MergedTimeline_repeat ==
    /\ merged' = [NoMerged EXCEPT !.op = "repeat", !.repeat = MergedRepeat(components)]
    /\ UNCHANGED <<overflow_checks, components, animator_vars, timescale_vars, track_vars,
                   builder_vars, bevy_vars>>

MergedNext ==
    \/ MergedTimeline_delay
    \/ MergedTimeline_duration
    \/ MergedTimeline_repeat

MergedSpec == MergedInit /\ [][MergedNext]_vars

ComponentRepeats == {components[i].timescale.repeat : i \in 1..Len(components)}
ComponentDelays == {components[i].timescale.delay : i \in 1..Len(components)}
ComponentDurations == {get_duration(components[i].timescale) : i \in 1..Len(components)}

\* C16: Repeat values are totally ordered by their number of extra cycles
\* with Infinite above every other, and MergedTimeline.repeat() is the
\* maximum over the components: Infinite whenever a component is Infinite,
\* whatever the order and the Times(k) of the others, and Repeat::None for a
\* composite that is empty or has only Repeat::None components.
C16_MergedRepeatIsMaximum ==
    merged.op = "repeat" =>
        /\ \A r \in ComponentRepeats :
              r # RepeatInfinite => RepeatCmp(r, RepeatInfinite) = "Less"
        /\ RepeatInfinite \in ComponentRepeats => merged.repeat = RepeatInfinite
        /\ ComponentRepeats \subseteq {RepeatNone} => merged.repeat = RepeatNone
        /\ ComponentRepeats # {} =>
              /\ merged.repeat \in ComponentRepeats
              /\ \A r \in ComponentRepeats : RepeatCmp(r, merged.repeat) # "Greater"

\* C17: the window of a MergedTimeline encloses those of its components:
\* delay() is the least component delay, duration() the greatest component
\* duration, infinite when a component's is; both are 0 when it is empty.
C17_MergedWindowEncloses ==
    /\ merged.op = "delay" =>
          IF components = <<>> THEN merged.delay = 0
          ELSE /\ merged.delay \in ComponentDelays
               /\ \A d \in ComponentDelays : merged.delay <= d
    /\ (merged.op = "duration" /\ ~merged.panic) =>
          IF components = <<>> THEN merged.duration = Finite(0)
          ELSE IF \E d \in ComponentDurations : ~d.finite THEN ~merged.duration.finite
          ELSE /\ merged.duration \in ComponentDurations
               /\ \A d \in ComponentDurations : d.secs <= merged.duration.secs

\* three components with finite durations, the middle one the longest
C17_Witness ==
    /\ merged.op = "duration" /\ ~merged.panic /\ Len(components) = 3
    /\ merged.duration.finite
    /\ merged.duration = get_duration(components[2].timescale)
    /\ get_duration(components[1].timescale).secs < merged.duration.secs
    /\ get_duration(components[3].timescale).secs < merged.duration.secs
    /\ components[1].timescale.delay > components[2].timescale.delay

(***************************************************************************)
(* SubTimeline on its own: the track of property x is built from a list of *)
(* keyframes, then asked for values                                        *)
(***************************************************************************)
\* most keyframes of a list
MaxKeyframes == 3
\* keyframe times are multiples of 1 / GridSteps, query times of half that
GridSteps == 4

\* what a keyframe holds for x
TrackValues == {None, Some(40), Some(200)}
\* the default value the track is built with
TrackDefaults == {DefaultValue, 16}

\* lists of at most MaxKeyframes keyframes at strictly ascending times
TrackKeyframeLists ==
    UNION { { [k \in 1..n |-> Keyframe(Rat(times[k], GridSteps), Data(xs[k], None), NoEasing)] :
                 times \in {f \in [1..n -> 0..GridSteps] :
                               \A k \in 1..n : k > 1 => f[k - 1] < f[k]},
                 xs \in [1..n -> TrackValues] } :
            n \in 0..MaxKeyframes }

\* query times, from before 0% to after 100%
QueryTimes == {Rat(i, 2 * GridSteps) : i \in (0 - 2)..(2 * GridSteps + 2)}

\* SubTimeline::from_keyframes
TrackInit ==
    \E checks \in BOOLEAN, keyframes \in TrackKeyframeLists, default_value \in TrackDefaults :
        /\ overflow_checks = checks
        /\ track_keyframes = keyframes
        /\ track_default = default_value
        /\ track_easing = "Linear"
        /\ track = from_keyframes(keyframes, default_value, "x", track_easing, checks)
        /\ query = NoQuery
        /\ result = NoWrite
        /\ AnimatorIdle /\ TimeScaleIdle /\ MergedIdle /\ BuilderIdle /\ BevyIdle

\* the timeline's lookup of a value: nothing without keyframes, otherwise
\* track.value_at(normalized_time, index_hint), the hint being the index of
\* the keyframe that contains the time
SubTimeline_value_at(normalized_time) ==
    /\ ~track.panic
    /\ LET boundary_times == get_boundary_times(track_keyframes)
           index_hint == FrameIndex(boundary_times, normalized_time)
       IN  /\ query' = [asked |-> TRUE, normalized_time |-> normalized_time,
                        index_hint |-> index_hint]
           /\ result' = IF boundary_times = <<>>
                        THEN NoWrite
                        ELSE value_at(track, normalized_time, index_hint, FALSE)
    /\ UNCHANGED <<overflow_checks, track_keyframes, track_default, track_easing, track,
                   animator_vars, timescale_vars, merged_vars, builder_vars, bevy_vars>>

TrackNext == \E normalized_time \in QueryTimes : SubTimeline_value_at(normalized_time)

TrackSpec == TrackInit /\ [][TrackNext]_vars

\* the keyframes that define x
XDefining == {k \in 1..Len(track_keyframes) : track_keyframes[k].data["x"].some}
\* the first and the last of them
FirstX == track_keyframes[Earliest(track_keyframes, XDefining)]
LastX == track_keyframes[Latest(track_keyframes, XDefining)]
\* the query time as value_at uses it
QueryTime == RClamp01(query.normalized_time)

\* the value on the straight line from the default value at 0% to the first
\* explicit value
FromDefault == lerp(track_default, FirstX.data["x"].v,
                    RDiv(QueryTime, FirstX.normalized_time)).v

\* a list with no keyframe at 0% whose first keyframe with a value for x lies
\* at a time t1 > 0, queried before t1
BeforeFirstExplicit ==
    /\ XDefining # {}
    /\ RLt(RZero, track_keyframes[1].normalized_time)
    /\ query.asked /\ RLt(QueryTime, FirstX.normalized_time)

\* C18 as stated: before the first explicit keyframe value_at returns the
\* default value.
C18_DefaultBeforeFirstKeyframe ==
    BeforeFirstExplicit => (result.some /\ result.v = track_default)

\* C18 as the code has it: before the first explicit keyframe value_at
\* returns the value interpolated from the default value at 0% toward the
\* first explicit value, which is the default value at 0% only.
C18_InterpolatedBeforeFirstKeyframe ==
    BeforeFirstExplicit =>
        /\ result.some /\ result.v = FromDefault
        /\ REq(QueryTime, RZero) => result.v = track_default

\* a query strictly between 0% and the first explicit keyframe whose result
\* is neither the default nor the explicit value
C18_Witness ==
    /\ BeforeFirstExplicit /\ RLt(RZero, QueryTime)
    /\ result.some
    /\ result.v # track_default /\ result.v # FirstX.data["x"].v

\* a list in which no keyframe gives x a value at 0% while a later one does
NoValueAtStart ==
    /\ XDefining # {}
    /\ RLt(RZero, FirstX.normalized_time)

\* C19: when no keyframe defines x at 0%, the track is built with a first
\* frame at time 0 that holds the default value, and a query between 0 and
\* the first explicit keyframe gets the value interpolated from the default
\* value toward the first explicit value.
C19_SynthesizedStartFrame ==
    NoValueAtStart =>
        /\ ~track.panic
        /\ track.frames # <<>>
        /\ REq(track.frames[1].normalized_time, RZero)
        /\ track.frames[1].value = track_default
        /\ (query.asked /\ RLe(QueryTime, FirstX.normalized_time)) =>
               (result.some /\ result.v = FromDefault)

\* the same, for the lists that have no keyframe at 0% at all
C19_Witness ==
    /\ NoValueAtStart
    /\ RLt(RZero, track_keyframes[1].normalized_time)
    /\ query.asked /\ RLt(RZero, QueryTime) /\ RLt(QueryTime, FirstX.normalized_time)
    /\ result.some /\ result.v = FromDefault /\ result.v # track_default

\* a track that was built, of a list in which no keyframe gives x a value at
\* 100% while an earlier one does
NoValueAtEnd ==
    /\ ~track.panic
    /\ XDefining # {}
    /\ RLt(LastX.normalized_time, ROne)

\* C20: when no keyframe defines x at 100%, every query from the last
\* explicit keyframe's time on, times beyond 100% included, gets the last
\* explicit value; and a query that lands on the last frame of a track gets
\* that frame's value.
C20_HoldsLastValue ==
    /\ (NoValueAtEnd /\ query.asked /\ RLe(LastX.normalized_time, QueryTime)) =>
           (result.some /\ result.v = LastX.data["x"].v)
    /\ (~track.panic /\ track.frames # <<>> /\ query.asked
          /\ RLe(track.frames[Len(track.frames)].normalized_time, QueryTime)) =>
           (result.some /\ result.v = track.frames[Len(track.frames)].value)

\* a query beyond 100% of a track whose last explicit value, different from
\* the default, lies before the last keyframe of the list
C20_Witness ==
    /\ NoValueAtEnd
    /\ Latest(track_keyframes, XDefining) < Len(track_keyframes)
    /\ query.asked /\ RLt(ROne, query.normalized_time)
    /\ result.some /\ result.v = LastX.data["x"].v /\ result.v # track_default

(***************************************************************************)
(* SubTimeline with easings: the keyframes may declare an easing, and the  *)
(* track is built with either default easing                                *)
(***************************************************************************)
\* most keyframes of a list; their times are multiples of 1 / MaxEasingKeyframes
MaxEasingKeyframes == 3

\* what a keyframe declares as its easing
EasingOptions == {NoEasing} \cup {SomeEasing(e) : e \in Easings}

\* the value that the k-th keyframe gives x when it gives one
EasingValue(k) == IF k % 2 = 1 THEN 200 ELSE 40

\* lists of keyframes at strictly ascending times, each with or without a
\* value for x and with or without an easing
EasingKeyframeLists ==
    UNION { { [k \in 1..n |->
                 Keyframe(Rat(times[k], MaxEasingKeyframes),
                          Data(IF defines[k] THEN Some(EasingValue(k)) ELSE None, None),
                          easings[k])] :
                 times \in {f \in [1..n -> 0..MaxEasingKeyframes] :
                               \A k \in 1..n : k > 1 => f[k - 1] < f[k]},
                 defines \in [1..n -> BOOLEAN],
                 easings \in [1..n -> EasingOptions] } :
            n \in 0..MaxEasingKeyframes }

\* query times, from before 0% to after 100%, keyframe times and the
\* midpoints between them
EasingQueryTimes ==
    {Rat(i, 2 * MaxEasingKeyframes) : i \in (0 - 1)..(2 * MaxEasingKeyframes + 1)}

\* SubTimeline::from_keyframes
EasingInit ==
    \E checks \in BOOLEAN, keyframes \in EasingKeyframeLists, default_easing \in Easings :
        /\ overflow_checks = checks
        /\ track_keyframes = keyframes
        /\ track_default = DefaultValue
        /\ track_easing = default_easing
        /\ track = from_keyframes(keyframes, DefaultValue, "x", default_easing, checks)
        /\ query = NoQuery
        /\ result = NoWrite
        /\ AnimatorIdle /\ TimeScaleIdle /\ MergedIdle /\ BuilderIdle /\ BevyIdle

EasingNext == \E normalized_time \in EasingQueryTimes : SubTimeline_value_at(normalized_time)

EasingSpec == EasingInit /\ [][EasingNext]_vars

\* the keyframes with the easing of keyframe k declared as e
WithEasing(keyframes, k, e) == [keyframes EXCEPT ![k].easing = e]

\* what the same query returns of the track built from other keyframes
ResultOf(keyframes) ==
    value_at(from_keyframes(keyframes, track_default, "x", track_easing, overflow_checks),
             query.normalized_time, query.index_hint, FALSE)

\* the frames that bound the query time
Bounds == get_bounding_frames(track, QueryTime, query.index_hint)
StartFrame == track.frames[Bounds.start + 1]
EndFrame == track.frames[Bounds.end + 1]

\* C21: a value between two frames is eased with the easing of the interval's
\* start frame; declaring another easing on keyframe k changes no value at
\* or before the time of k; and the easing of a keyframe at 100% changes no
\* value at all.
C21_EasingLocality ==
    query.asked =>
        /\ (Bounds.some /\ RLt(StartFrame.normalized_time, EndFrame.normalized_time)) =>
               /\ result.some
               /\ result.v = lerp(StartFrame.value, EndFrame.value,
                                  calc(StartFrame.easing,
                                       RDiv(RSub(QueryTime, StartFrame.normalized_time),
                                            RSub(EndFrame.normalized_time,
                                                 StartFrame.normalized_time)))).v
        /\ \A k \in 1..Len(track_keyframes), e \in EasingOptions :
               (\/ RLe(QueryTime, track_keyframes[k].normalized_time)
                \/ REq(track_keyframes[k].normalized_time, ROne)) =>
                   ResultOf(WithEasing(track_keyframes, k, e)) = result

\* a query strictly inside the interval between two keyframes with different
\* values for x, the second declaring an easing that is not the one the
\* interval is eased with; and another easing at the first changes the value
C21_Witness ==
    /\ query.asked /\ result.some
    /\ \E k \in 2..Len(track_keyframes) :
           /\ track_keyframes[k - 1].data["x"].some /\ track_keyframes[k].data["x"].some
           /\ RLt(track_keyframes[k - 1].normalized_time, QueryTime)
           /\ RLt(QueryTime, track_keyframes[k].normalized_time)
           /\ track_keyframes[k].easing.some
           /\ track_keyframes[k].easing.v # StartFrame.easing
           /\ \E e \in EasingOptions :
                  ResultOf(WithEasing(track_keyframes, k - 1, e)) # result

\* the keyframes up to the k-th that declare an easing
DeclaringUpTo(keyframes, k) == {j \in 1..k : j <= Len(keyframes) /\ keyframes[j].easing.some}

\* the easing in effect at the k-th keyframe: the one declared last up to
\* it, and the default easing when none is
EasingInEffect(keyframes, k, default_easing) ==
    IF DeclaringUpTo(keyframes, k) = {} THEN default_easing
    ELSE keyframes[Last(DeclaringUpTo(keyframes, k))].easing.v

\* the frame emitted at the k-th keyframe, which defines x
FrameAt(k) == track.frames[track.frame_index_map[k] + 1]

\* C22: every keyframe that declares an easing makes it the current one,
\* whether or not it defines x: the frame of a keyframe that defines x
\* carries the easing declared last up to that keyframe, or the default
\* easing when none was; the synthesized frame at 0% carries the easing in
\* effect when the first keyframe that defines x is reached (before or after
\* that keyframe's own declaration).
C22_EasingInheritance ==
    ~track.panic =>
        /\ \A k \in XDefining :
               FrameAt(k).easing = EasingInEffect(track_keyframes, k, track_easing)
        /\ NoValueAtStart =>
               LET k1 == Earliest(track_keyframes, XDefining)
               IN  track.frames[1].easing \in
                       {EasingInEffect(track_keyframes, k1 - 1, track_easing),
                        EasingInEffect(track_keyframes, k1, track_easing)}

\* a keyframe without a value for x declares an easing other than the
\* default, a later keyframe defines x and declares none, and a query falls
\* between that keyframe and a following one with another value
C22_Witness ==
    /\ query.asked /\ result.some
    /\ \E j \in 1..Len(track_keyframes), k \in XDefining :
           /\ j < k /\ k < Len(track_keyframes)
           /\ ~track_keyframes[j].data["x"].some
           /\ track_keyframes[j].easing.some /\ track_keyframes[j].easing.v # track_easing
           /\ ~track_keyframes[k].easing.some
           /\ track_keyframes[k + 1].data["x"].some
           /\ RLt(track_keyframes[k].normalized_time, QueryTime)
           /\ RLt(QueryTime, track_keyframes[k + 1].normalized_time)

(***************************************************************************)
(* Timeline::update as a function of the timeline, the target and the time *)
(***************************************************************************)
\* the times at which the current timeline is tried: the time it is at, and
\* up to MaxStep later
UpdateTimes == state_duration..(state_duration + MaxStep)

\* the targets it is tried on
UpdateTargets == {initial_values, current_values}

\* C23: update is a function of the timeline, the target and the time, and
\* applying it again to its own result changes nothing: what advance wrote
\* is what update gives from the values and timeline before the call, the
\* timeline is the same after the call, and for the current timeline, each
\* target and each time, a second update of the result returns the result.
C23_UpdateIdempotent ==
    /\ (Advanced /\ prev.timelines[prev.current_state].some) =>
           /\ timelines = prev.timelines
           /\ current_values =
                  MergedUpdate(prev.timelines[prev.current_state].timelines,
                               prev.current_values, state_duration).values
    /\ \A target \in UpdateTargets, time \in UpdateTimes :
           LET once == MergedUpdate(Current, target, time)
           IN  ~once.panic => MergedUpdate(Current, once.values, time) = once

\* an advance in the first forward pass of a rebased timeline that changed
\* the values, short of the end of the timeline
C23_Witness ==
    /\ Advanced /\ ~panicked /\ timelines[current_state].some
    /\ current_values # prev.current_values
    /\ \E i \in 1..Len(Current) :
           /\ InFirstForward(Current[i].timescale, state_duration)
           /\ \E p \in Props : Current[i].t[p].start_override.some
                                  /\ Current[i].t[p].start_override.v # current_values[p]
    /\ MergedUpdate(Current, current_values, state_duration).values = current_values

(***************************************************************************)
(* Construction of a time scale from a configuration with any duration     *)
(***************************************************************************)
\* the cycle durations a configuration may be given, in seconds
CycleDurations == (0 - 1)..MaxCycle

\* TimelineConfiguration::duration_seconds(..) etc., and the time scale of
\* the timeline built from it
ConstructionInit ==
    \E checks \in BOOLEAN, duration \in CycleDurations, delay \in 0..MaxDelay,
       repeat \in Repeats, reverse \in BOOLEAN :
        /\ overflow_checks = checks
        /\ scale = BuilderArguments(
                       TimelineConfiguration(<<>>, duration, delay, repeat, reverse)).timescale
        /\ clock = 0
        /\ position = NoPosition
        /\ total = NoTotal
        /\ AnimatorIdle /\ MergedIdle /\ TrackIdle /\ BuilderIdle /\ BevyIdle

ConstructionSpec == ConstructionInit /\ [][TimeScaleNext]_vars

\* C24: a configuration with a cycle duration <= 0 is rejected when the
\* timeline is constructed, so no time scale has such a duration and no
\* position is ever computed by dividing by one.
C24_DegenerateCycleRejected ==
    position.kind = "Active" => scale.duration > 0

(***************************************************************************)
(* The animator over timelines whose easing overshoots, so that an         *)
(* interpolated value can leave the range of its field                     *)
(***************************************************************************)
\* x runs from 100 to 250 and leaves the range of u8 on the way
KOvershootX == <<Keyframe(RZero, Data(Some(100), Some(50)), SomeEasing(Overshoot)),
                 Keyframe(ROne, Data(Some(250), Some(20)), NoEasing)>>
\* x stays in range, y (written after x) does not
KOvershootY == <<Keyframe(RZero, Data(Some(100), Some(10)), SomeEasing(Overshoot)),
                 Keyframe(ROne, Data(Some(200), Some(250)), NoEasing)>>
\* neither leaves the range
KOvershootNone == <<Keyframe(RZero, Data(Some(100), Some(50)), SomeEasing(Overshoot)),
                    Keyframe(ROne, Data(Some(200), Some(20)), NoEasing)>>

OvershootConfigs ==
    { <<Config(k, ts)>> : k \in {KOvershootX, KOvershootY, KOvershootNone},
                          ts \in {Once, DelayedTwice} }
    \cup { <<Config(KFull, Once), Config(KOvershootY, Once)>>,
           <<Config(KOvershootX, Once), Config(KFull, Once)>> }

OvershootOptionalConfigs ==
    { [some |-> TRUE, configs |-> <<Config(KOvershootY, Once)>>],
      [some |-> TRUE, configs |-> <<Config(KFull, Once)>>],
      [some |-> FALSE, configs |-> <<>>] }

\* StateAnimatorBuilder: on(A, ..), optionally on(B, ..), from_values, build
OvershootInit ==
    \E checks \in BOOLEAN, a \in OvershootConfigs, b \in OvershootOptionalConfigs,
       values \in InitialValues :
        LET given == [s \in States |-> IF s = "A" THEN [some |-> TRUE, configs |-> a] ELSE b]
            built == [s \in States |->
                        [some |-> given[s].some,
                         timelines |-> BuildMerged(given[s].configs, checks)]]
        IN  /\ overflow_checks = checks
            /\ configs = given
            /\ initial_values = values
            /\ panicked = MapPanics(built)
            /\ timelines = IF MapPanics(built) THEN built
                           ELSE blend_next_timeline(built, InitialState, values)
            /\ current_state = InitialState
            /\ current_values = values
            /\ state_duration = 0
            /\ transitions = 0
            /\ time_in_state = [s \in States |-> 0]
            /\ last_op = [kind |-> "new", state |-> InitialState, dt |-> 0]
            /\ prev = [timelines |-> built, current_state |-> InitialState,
                       current_values |-> values, state_duration |-> 0]
            /\ TimeScaleIdle /\ MergedIdle /\ TrackIdle /\ BuilderIdle /\ BevyIdle

OvershootSpec == OvershootInit /\ [][Next]_vars

\* whether a float fits u8 when converted: it truncates into 0..255
Fits(r) == RLt(Rat(0 - 1, 1), r) /\ RLt(r, Rat(U8Max + 1, 1))

\* the interpolated value a * (1 - y) + b * y of property p of a timeline at
\* a time, before it is converted back to the type of the field
Exact(timeline, p, time) ==
    LET frame == prepare_frame(time, timeline.boundary_times, timeline.timescale)
        sub == timeline.t[p]
        t == RClamp01(frame.normalized_time)
        b == get_bounding_frames(sub, t, frame.frame_index)
        start == FrameOf(sub, b.start, frame.enable_start_override)
        end == FrameOf(sub, b.end, frame.enable_start_override)
        y == calc(start.easing,
                  RDiv(RSub(t, start.normalized_time),
                       RSub(end.normalized_time, start.normalized_time)))
    IN  IF ~frame.some \/ ~b.some THEN [some |-> FALSE, r |-> RZero]
        ELSE IF REq(start.normalized_time, end.normalized_time)
        THEN [some |-> FALSE, r |-> RZero]
        ELSE [some |-> TRUE, r |-> Rat(start.value * (y.d - y.n) + end.value * y.n, y.d)]

\* some field of the current timeline has an interpolated value that does
\* not fit
SomeValueMisfits ==
    \E i \in 1..Len(Current), p \in Props :
        LET e == Exact(Current[i], p, state_duration) IN e.some /\ ~Fits(e.r)

\* C25: advance fails (panics) exactly when an interpolated value of the
\* current timeline does not fit its field, never wrapping or clamping it;
\* and after a failed advance(dt) the time in the state has advanced by dt
\* and the state is the same.
C25_FailedWriteKeepsTiming ==
    (Advanced /\ timelines[current_state].some) =>
        /\ panicked <=> SomeValueMisfits
        /\ state_duration = prev.state_duration + last_op.dt
        /\ current_state = prev.current_state
        /\ \A p \in Props : current_values[p] \in 0..U8Max

\* a failed advance that had written x before y failed
C25_Witness ==
    /\ Advanced /\ panicked /\ SomeValueMisfits
    /\ state_duration = prev.state_duration + last_op.dt /\ last_op.dt > 0
    /\ current_values["x"] # prev.current_values["x"]
    /\ current_values["y"] = prev.current_values["y"]

(***************************************************************************)
(* StateAnimator::is_ended, over timelines of every kind of repeat         *)
(***************************************************************************)
\* whether the animation of the current state has run to its end: always
\* without a timeline, otherwise once the time in the state has reached the
\* duration the timeline reports
is_ended(f) ==
    IF ~f.timelines[f.current_state].some THEN [panic |-> FALSE, ended |-> TRUE]
    ELSE LET tls == f.timelines[f.current_state].timelines
             d == MergedDuration(tls)
         IN  [panic |-> overflow_checks
                          /\ \E i \in 1..Len(tls) : get_duration_panics(tls[i].timescale),
              ended |-> d.finite /\ f.state_duration >= d.secs]

\* as many cycles as Repeat::Times can hold
ManyTimes == TimeScale(2, 1, RepeatTimes(U32Max), FALSE)

EndedConfigs ==
    { <<Config(KFull, ts)>> : ts \in {Once, DelayedTwice, Forever, ManyTimes} }
    \cup { <<Config(KFull, Once), Config(KLastX, DelayedTwice)>>,
           <<Config(KFull, DelayedTwice), Config(KEmpty, Once)>>,
           <<Config(KFull, Once), Config(KFull, ManyTimes)>> }

EndedOptionalConfigs ==
    { [some |-> TRUE, configs |-> <<Config(KFull, Once)>>],
      [some |-> TRUE, configs |-> <<Config(KLastX, DelayedTwice)>>],
      [some |-> FALSE, configs |-> <<>>] }

\* StateAnimatorBuilder: on(A, ..), optionally on(B, ..), from_values, build
EndedInit ==
    \E checks \in BOOLEAN, a \in EndedConfigs, b \in EndedOptionalConfigs,
       values \in InitialValues :
        LET given == [s \in States |-> IF s = "A" THEN [some |-> TRUE, configs |-> a] ELSE b]
            built == [s \in States |->
                        [some |-> given[s].some,
                         timelines |-> BuildMerged(given[s].configs, checks)]]
        IN  /\ overflow_checks = checks
            /\ configs = given
            /\ initial_values = values
            /\ panicked = MapPanics(built)
            /\ timelines = IF MapPanics(built) THEN built
                           ELSE blend_next_timeline(built, InitialState, values)
            /\ current_state = InitialState
            /\ current_values = values
            /\ state_duration = 0
            /\ transitions = 0
            /\ time_in_state = [s \in States |-> 0]
            /\ last_op = [kind |-> "new", state |-> InitialState, dt |-> 0]
            /\ prev = [timelines |-> built, current_state |-> InitialState,
                       current_values |-> values, state_duration |-> 0]
            /\ TimeScaleIdle /\ MergedIdle /\ TrackIdle /\ BuilderIdle /\ BevyIdle

EndedSpec == EndedInit /\ [][Next]_vars

\* the time scale has run all its cycles at time t: delay + cycle duration *
\* (repeats + 1) has been reached
RunOut(ts, t) ==
    ~Unending(ts) /\ t >= ts.delay + ts.duration * (as_ordinal(ts.repeat) + 1)

\* C26: is_ended() is true in a state without a timeline; otherwise it is
\* false while the time in the state is below the total duration of the
\* timeline (of every component, for a merged one) and true once it has
\* reached it.
C26_EndedOnceDurationReached ==
    ~panicked =>
        /\ ~is_ended(Fields).panic
        /\ is_ended(Fields).ended <=>
               (timelines[current_state].some =>
                    \A i \in 1..Len(Current) : RunOut(Current[i].timescale, state_duration))

\* the time in the state has just reached the total duration of a delayed,
\* repeating timeline
C26_Witness ==
    /\ ~panicked /\ Advanced /\ timelines[current_state].some
    /\ is_ended(Fields).ended /\ ~is_ended(prev).ended
    /\ \E i \in 1..Len(Current) :
           /\ Current[i].timescale.delay > 0 /\ Current[i].timescale.repeat.kind = "Times"
           /\ state_duration = get_duration(Current[i].timescale).secs

(***************************************************************************)
(* Shape of a track                                                        *)
(***************************************************************************)
\* the entry of the index map for the k-th keyframe, a 0-based frame ordinal
EntryOf(k) == track.frame_index_map[k]

\* C27: the track of a non-empty keyframe list is built, its frame times
\* ascend from 0 to 1, and its index map has one entry per keyframe, each a
\* valid frame ordinal: the frame of the keyframe itself when it defines x,
\* and otherwise the frame the previous keyframe's entry names (the first
\* frame for the first keyframe).
C27_TrackWellFormed ==
    track_keyframes # <<>> =>
        /\ ~track.panic
        /\ track.frames # <<>>
        /\ REq(track.frames[1].normalized_time, RZero)
        /\ REq(track.frames[Len(track.frames)].normalized_time, ROne)
        /\ \A i \in 2..Len(track.frames) :
               RLt(track.frames[i - 1].normalized_time, track.frames[i].normalized_time)
        /\ Len(track.frame_index_map) = Len(track_keyframes)
        /\ \A k \in 1..Len(track_keyframes) :
               /\ EntryOf(k) \in 0..(Len(track.frames) - 1)
               /\ IF k \in XDefining
                  THEN /\ REq(track.frames[EntryOf(k) + 1].normalized_time,
                              track_keyframes[k].normalized_time)
                       /\ track.frames[EntryOf(k) + 1].value = track_keyframes[k].data["x"].v
                  ELSE EntryOf(k) = IF k = 1 THEN 0 ELSE EntryOf(k - 1)

\* a built track with a synthesized frame at either end, of a list whose
\* first and last keyframes carry no value for x
C27_Witness ==
    /\ Len(track_keyframes) = MaxKeyframes
    /\ ~track.panic
    /\ XDefining = {2}
    /\ Len(track.frames) = 3
    /\ EntryOf(1) = 0 /\ EntryOf(2) = 1 /\ EntryOf(3) = 1

(***************************************************************************)
(* TimelineConfiguration: keyframes are declared one by one in any order,  *)
(* then the configuration is converted into TimelineBuilderArguments       *)
(***************************************************************************)
\* most keyframes declared; their times are multiples of 1 / MaxDeclared
MaxDeclared == 3

\* the value the k-th declared keyframe gives to each property
DeclaredValue(k) == 10 * k

BuilderInit ==
    /\ overflow_checks = FALSE
    /\ BuilderIdle
    /\ AnimatorIdle /\ TimeScaleIdle /\ MergedIdle /\ TrackIdle /\ BevyIdle

\* TimelineConfiguration::keyframe(builder)
TimelineConfiguration_keyframe(normalized_time) ==
    /\ ~arguments.some
    /\ Len(declaration.keyframes) < MaxDeclared
    /\ LET v == DeclaredValue(Len(declaration.keyframes) + 1)
       IN  declaration' =
               [declaration EXCEPT
                   !.keyframes = Append(@, Keyframe(normalized_time, Data(Some(v), Some(v)),
                                                    NoEasing))]
    /\ UNCHANGED <<overflow_checks, arguments, animator_vars, timescale_vars, merged_vars,
                   track_vars, bevy_vars>>

\* TimelineBuilderArguments::from(configuration)
TimelineBuilderArguments_from ==
    /\ ~arguments.some
    /\ arguments' = [some |-> TRUE, args |-> BuilderArguments(declaration)]
    /\ UNCHANGED <<overflow_checks, declaration, animator_vars, timescale_vars, merged_vars,
                   track_vars, bevy_vars>>

BuilderNext ==
    \/ \E i \in 0..MaxDeclared : TimelineConfiguration_keyframe(Rat(i, MaxDeclared))
    \/ TimelineBuilderArguments_from

BuilderSpec == BuilderInit /\ [][BuilderNext]_vars

\* the place in the declaration of the i-th keyframe of the arguments
DeclaredAt(i) == arguments.args.keyframes[i].data["x"].v \div 10

\* C28: in the built arguments the keyframes are those declared, in
\* ascending order of time with ties in declaration order; boundary_times
\* is ascending and its i-th element is the time of the i-th keyframe.
C28_BoundaryTimesMatchKeyframes ==
    arguments.some =>
        LET sorted == arguments.args.keyframes
            times == arguments.args.boundary_times
            n == Len(declaration.keyframes)
        IN  /\ Len(sorted) = n /\ Len(times) = n
            /\ \A i \in 1..n : DeclaredAt(i) \in 1..n
                                  /\ sorted[i] = declaration.keyframes[DeclaredAt(i)]
            /\ \A i \in 2..n :
                   \/ RLt(sorted[i - 1].normalized_time, sorted[i].normalized_time)
                   \/ /\ REq(sorted[i - 1].normalized_time, sorted[i].normalized_time)
                      /\ DeclaredAt(i - 1) < DeclaredAt(i)
            /\ \A i \in 2..n : RLe(times[i - 1], times[i])
            /\ \A i \in 1..n : REq(times[i], sorted[i].normalized_time)

\* arguments built from keyframes declared in ascending order, two of them
\* at the same time
C28_Witness ==
    /\ arguments.some
    /\ Len(declaration.keyframes) = MaxDeclared
    /\ \A i \in 2..Len(declaration.keyframes) :
           RLe(declaration.keyframes[i - 1].normalized_time,
               declaration.keyframes[i].normalized_time)
    /\ \E i \in 2..Len(declaration.keyframes) :
           REq(declaration.keyframes[i - 1].normalized_time,
               declaration.keyframes[i].normalized_time)
    /\ \A i \in 1..Len(declaration.keyframes) :
           REq(arguments.args.boundary_times[i], arguments.args.keyframes[i].normalized_time)

(***************************************************************************)
(* The end of a time scale                                                 *)
(***************************************************************************)
\* the normalized time of an Ended position
EndValue(ts) == IF ts.reverse THEN RZero ELSE ROne

\* the last time up to c at which the position is Active
LastActive(ts, c) ==
    CHOOSE t \in 0..c :
        /\ get_position(ts, t).kind = "Active"
        /\ \A u \in (t + 1)..c : get_position(ts, u).kind # "Active"

\* C29: every Active normalized time lies in [0, 1]; at the end of the last
\* cycle (time - delay = cycle duration * (k + 1)) the position is Active
\* with the normalized time that Ended carries (1, or 0 with reverse); and
\* an Ended position carries the normalized time of the last Active
\* position before it.
C29_NoJumpAtEnd ==
    /\ position.kind = "Active" => (RLe(RZero, position.t) /\ RLe(position.t, ROne))
    /\ (~Unending(scale) /\ position.kind # "None"
          /\ SinceStart = scale.duration * (as_ordinal(scale.repeat) + 1)) =>
           (position.kind = "Active" /\ REq(position.t, EndValue(scale)))
    /\ (position.kind = "Ended" /\ scale.repeat.kind # "Infinite") =>
           /\ REq(position.t, EndValue(scale))
           /\ REq(get_position(scale, LastActive(scale, clock)).t, position.t)

\* a reversing, repeating time scale a second after its last cycle
C29_Witness ==
    /\ position.kind = "Ended"
    /\ scale.reverse /\ scale.repeat.kind = "Times" /\ scale.repeat.times > 0
    /\ scale.delay > 0
    /\ SinceStart = scale.duration * (scale.repeat.times + 1) + 1
    /\ REq(get_position(scale, clock - 1).t, RZero)
    /\ get_position(scale, clock - 1).kind = "Active"

(***************************************************************************)
(* The Bevy Animator component and its animate system                      *)
(* (bevy/src/animator.rs)                                                  *)
(*                                                                         *)
(* bevy_animator is the Animator component of one entity, bevy_target the  *)
(* animated component of the same entity (some = FALSE when the entity     *)
(* does not carry it), bevy_events the AnimationStateChanged events sent   *)
(* by the latest run of the system.  bevy_applied is a ghost: the position *)
(* of the latest Timeline::update since the animator was reset or given    *)
(* another timeline.  Times are whole seconds.                             *)
(***************************************************************************)
MaxPosition == 6

\* Animator::with_timeline(timeline)
with_timeline(timeline) ==
    [enabled |-> TRUE, timeline_position |-> 0, has_timeline |-> TRUE,
     timeline |-> timeline, state |-> "None"]

\* timelines of two-second cycles over the 0% and 100% keyframes of KFull
BevyConfigs ==
    { TimelineConfiguration(KFull, 2, delay, repeat, reverse) :
        delay \in 0..1, repeat \in {RepeatNone, RepeatTimes(1), RepeatInfinite},
        reverse \in BOOLEAN }

\* Timeline::delay and Timeline::duration of a generated timeline
Timeline_delay(timeline) == timeline.timescale.delay
Timeline_duration(timeline) == get_duration(timeline.timescale)

\* position_secs >= timeline_duration, the duration possibly f32::INFINITY
ReachesDuration(position_secs, timeline_duration) ==
    timeline_duration.finite /\ position_secs >= timeline_duration.secs

BevyInit ==
    \E checks \in BOOLEAN, present \in BOOLEAN, values \in InitialValues :
        /\ overflow_checks = checks
        /\ bevy_animator \in
               {NewAnimator} \cup
               { with_timeline(BuildTimeline(c, checks)) : c \in BevyConfigs }
        /\ bevy_target = [some |-> present, values |-> values]
        /\ bevy_events = <<>>
        /\ bevy_applied = {}
        /\ AnimatorIdle /\ TimeScaleIdle /\ MergedIdle /\ TrackIdle /\ BuilderIdle

\* the state after the three transitions of one run of the system
StateAfter(state, position_secs, timeline_delay, timeline_duration) ==
    LET started == IF state = "None" THEN "Waiting" ELSE state
        played == IF started = "Waiting" /\ position_secs >= timeline_delay
                  THEN "Playing" ELSE started
    IN  IF ReachesDuration(position_secs, timeline_duration) /\ played # "Ended"
        THEN "Ended" ELSE played

\* state_changed at the end of one run of the system
StateChanged(state, position_secs, timeline_delay, timeline_duration) ==
    LET started == IF state = "None" THEN "Waiting" ELSE state
        played == IF started = "Waiting" /\ position_secs >= timeline_delay
                  THEN "Playing" ELSE started
    IN  \/ state = "None"
        \/ started = "Waiting" /\ position_secs >= timeline_delay
        \/ ReachesDuration(position_secs, timeline_duration) /\ played # "Ended"

\* animate: one run of the system over the entity, with time.delta() = delta
animate(delta) ==
    /\ bevy_animator.timeline_position + delta <= MaxPosition
    /\ LET a == bevy_animator
           position_secs == a.timeline_position
           timeline_delay == Timeline_delay(a.timeline)
           timeline_duration == Timeline_duration(a.timeline)
           updates == a.state = "Playing" /\ bevy_target.some
           state == StateAfter(a.state, position_secs, timeline_delay, timeline_duration)
       IN  IF ~a.enabled
           THEN /\ bevy_events' = <<>>
                /\ UNCHANGED <<bevy_animator, bevy_target, bevy_applied>>
           ELSE IF ~a.has_timeline
           THEN /\ bevy_animator' = [a EXCEPT !.state = "None"]
                /\ bevy_events' = IF a.state # "None" THEN <<"None">> ELSE <<>>
                /\ UNCHANGED <<bevy_target, bevy_applied>>
           ELSE /\ bevy_target' =
                       IF updates
                       THEN [bevy_target EXCEPT
                               !.values = TimelineUpdate(a.timeline, @, position_secs).values]
                       ELSE bevy_target
                /\ bevy_applied' = IF updates THEN {position_secs} ELSE bevy_applied
                /\ bevy_animator' =
                       [a EXCEPT !.state = state,
                                 !.timeline_position =
                                     IF state # "Ended" THEN @ + delta ELSE @]
                /\ bevy_events' =
                       IF StateChanged(a.state, position_secs, timeline_delay,
                                       timeline_duration)
                       THEN <<state>> ELSE <<>>
    /\ UNCHANGED <<overflow_checks, animator_vars, timescale_vars, merged_vars, track_vars,
                   builder_vars>>

\* Animator::reset()
Animator_reset ==
    /\ bevy_animator' = [bevy_animator EXCEPT !.timeline_position = 0, !.state = "None"]
    /\ bevy_applied' = {}
    /\ UNCHANGED <<overflow_checks, bevy_target, bevy_events, animator_vars, timescale_vars,
                   merged_vars, track_vars, builder_vars>>

\* Animator::set_timeline(timeline)
Animator_set_timeline(timeline) ==
    /\ bevy_animator' = [bevy_animator EXCEPT !.has_timeline = TRUE, !.timeline = timeline]
    /\ bevy_applied' = {}
    /\ UNCHANGED <<overflow_checks, bevy_target, bevy_events, animator_vars, timescale_vars,
                   merged_vars, track_vars, builder_vars>>

\* a write of the public field Animator::enabled
Animator_set_enabled(enabled) ==
    /\ bevy_animator' = [bevy_animator EXCEPT !.enabled = enabled]
    /\ UNCHANGED <<overflow_checks, bevy_target, bevy_events, bevy_applied, animator_vars,
                   timescale_vars, merged_vars, track_vars, builder_vars>>

BevyNext ==
    \/ \E delta \in 0..MaxPosition : animate(delta)
    \/ Animator_reset
    \/ \E c \in BevyConfigs : Animator_set_timeline(BuildTimeline(c, overflow_checks))
    \/ \E enabled \in BOOLEAN : Animator_set_enabled(enabled)

BevySpec == BevyInit /\ [][BevyNext]_vars

\* the latest run of the system moved the animator into Ended
EnteredEnded ==
    bevy_animator.state = "Ended" /\ bevy_events = <<"Ended">>

\* the timeline has been applied at or after its total duration
AppliedAtEnd ==
    \E p \in bevy_applied : p >= Timeline_duration(bevy_animator.timeline).secs

\* C30: when the system moves an enabled animator with a timeline into
\* Ended, the timeline has been applied to the target component at a
\* position at or after its total duration; and an Ended animator keeps its
\* state and its timeline_position until reset().
C30_EndedAfterFinalUpdate ==
    [][/\ (bevy_animator.state # "Ended" /\ EnteredEnded' /\ bevy_target'.some) =>
              AppliedAtEnd'
       /\ bevy_animator.state = "Ended" =>
              \/ /\ bevy_animator'.state = "Ended"
                 /\ bevy_animator'.timeline_position = bevy_animator.timeline_position
              \/ Animator_reset]_vars

\* an animator that ended on a frame on which the timeline was applied at
\* its total duration
C30_Witness ==
    /\ EnteredEnded /\ bevy_target.some /\ AppliedAtEnd
    /\ bevy_animator.timeline.timescale.delay > 0
    /\ bevy_target.values = Data(20, 80)

====
